---- MODULE Spec2Model ----
(***************************************************************************)
(* A model of the apexJSON codec: the streaming Decoder's value framer,    *)
(* the lexical primitives of the Parser, the path extractor, the           *)
(* reflective marshaller and parser over a small universe of typed values, *)
(* and the size-classed Buffer pools.                                      *)
(*                                                                         *)
(* Bytes are one-character strings; a byte slice is a sequence of them.    *)
(* Go indexes from 0 and TLA+ sequences from 1: a Go index i is written    *)
(* i + 1 where a sequence is indexed.                                      *)
(***************************************************************************)
EXTENDS Integers, Sequences, FiniteSets, TLC

VARIABLES
    source,     \* Decoder spec: the whole content of the io.Reader (never changes)
    reader,     \* Decoder spec: the io.Reader (bytes not handed out yet, bytes per Read)
    d,          \* Decoder spec: the Decoder struct (buf, readPos, tokenBuf)
    rv,         \* Decoder spec: the locals of the running readValue call
    pc,         \* Decoder spec: where the running Decode call is
    results,    \* Decoder spec: what the finished Decode calls returned, in call order
    px,         \* Lexer spec: the Parser a primitive or Extract ran over, and its outcome
    rt,         \* Codec spec: a typed value with what Marshal and Unmarshal made of it
    bufs,       \* Pool spec: every Buffer ever allocated, by identity
    pools,      \* Pool spec: the identities each sync.Pool holds
    procs,      \* Pool spec: the goroutines that call Marshal or use the pools directly
    stats,      \* Pool spec: history counters (allocations, dropped releases, pairs)
    dests,      \* Decoder spec: the interface{} destination after each finished Decode call
    fieldCache, \* Field cache spec: the sync.Map from struct type to its stored layout
    callers,    \* Field cache spec: the goroutines inside getCachedFields
    computed,   \* Field cache spec: the layouts computeStructFields has made, by type
    bw,         \* Buffer spec: one Buffer and what has been done to it since its Reset
    enc,        \* Encoder spec: the Encoder, its sink and the values encoded so far
    um,         \* Unmarshal spec: a JSON text, a destination and what Unmarshal made of it
    ms,         \* Struct spec: a struct value and what Marshal made of it
    tk,         \* Token pool spec: the Decoders' token buffers and the token-buffer pool
    pa,         \* Parser spec: one Parser, its cursor, and the primitive running over it
    gobj        \* GetObject spec: a document, a path and what GetObject returned

decoderVars == <<source, reader, d, rv, pc, results, dests>>
lexerVars == <<px>>
codecVars == <<rt>>
poolVars == <<bufs, pools, procs, stats>>
cacheVars == <<fieldCache, callers, computed>>
bufferVars == <<bw>>
encoderVars == <<enc>>
unmarshalVars == <<um>>
structVars == <<ms>>
tokenVars == <<tk>>
parserVars == <<pa>>
objectVars == <<gobj>>
\* The variables of the specifications other than the four above.
restVars == <<cacheVars, bufferVars, encoderVars, unmarshalVars, structVars,
              tokenVars, parserVars, objectVars>>
vars == <<source, reader, d, rv, pc, results, px, rt, bufs, pools, procs, stats,
          dests, fieldCache, callers, computed, bw, enc, um, ms, tk, pa, gobj>>

(***************************************************************************)
(* Bytes                                                                   *)
(***************************************************************************)
Min(a, b) == IF a <= b THEN a ELSE b

Max(a, b) == IF a >= b THEN a ELSE b

\* The byte 0x01 stands for the control bytes that escapeMap has no entry for.
CTRL == "x01"

\* The zero byte of freshly made storage.
NUL == "x00"

isWhitespace(c) == c = " " \/ c = "\t" \/ c = "\n" \/ c = "\r"

Digits == <<"0", "1", "2", "3", "4", "5", "6", "7", "8", "9">>

isDigit(c) == \E i \in 1..10 : Digits[i] = c

\* p.data[from:to] of Go, for 0 <= from <= to <= len.
Slice(s, from, to) == SubSeq(s, from + 1, to)

\* Go's copy(dst, src) copies min(len(dst), len(src)) bytes.
CopyLen(dstLen, srcLen) == Min(Max(dstLen, 0), srcLen)

RECURSIVE SkipDigits(_, _)
\* The least Go index j >= i at which s holds no digit (possibly len(s)).
SkipDigits(s, i) ==
    IF i < Len(s) /\ isDigit(s[i + 1]) THEN SkipDigits(s, i + 1) ELSE i

\* isCompleteLiteral: null, true, false or a complete JSON number.
isCompleteLiteral(s) ==
    IF Len(s) > 0 /\ (s[1] = "{" \/ s[1] = "[") THEN FALSE
    ELSE IF s = <<"n", "u", "l", "l">> \/ s = <<"t", "r", "u", "e">>
            \/ s = <<"f", "a", "l", "s", "e">> THEN TRUE
    ELSE IF Len(s) = 0 THEN FALSE
    ELSE LET i0 == IF s[1] = "-" THEN 1 ELSE 0 IN
         IF i0 >= Len(s) THEN FALSE
         ELSE IF ~isDigit(s[i0 + 1]) THEN FALSE
         ELSE LET i1 == IF s[i0 + 1] = "0" THEN i0 + 1 ELSE SkipDigits(s, i0 + 1)
                  hasDot == i1 < Len(s) /\ s[i1 + 1] = "."
                  dotBad == hasDot /\ (i1 + 1 >= Len(s) \/ ~isDigit(s[i1 + 2]))
                  i2 == IF hasDot /\ ~dotBad THEN SkipDigits(s, i1 + 1) ELSE i1
                  hasExp == i2 < Len(s) /\ (s[i2 + 1] = "e" \/ s[i2 + 1] = "E")
                  i3 == IF hasExp THEN i2 + 1 ELSE i2
                  hasSign == hasExp /\ i3 < Len(s) /\ (s[i3 + 1] = "+" \/ s[i3 + 1] = "-")
                  i4 == IF hasSign THEN i3 + 1 ELSE i3
                  expBad == hasExp /\ (i4 >= Len(s) \/ ~isDigit(s[i4 + 1]))
                  i5 == IF hasExp /\ ~expBad THEN SkipDigits(s, i4) ELSE i4
              IN IF dotBad \/ expBad THEN FALSE ELSE i5 = Len(s)

(***************************************************************************)
(* The lexical primitives of the Parser.  A Parser is its data and its     *)
(* pos; a primitive is given both and returns the pos it leaves behind.    *)
(***************************************************************************)
RECURSIVE skipWhitespace(_, _)
skipWhitespace(data, pos) ==
    IF pos < Len(data) /\ isWhitespace(data[pos + 1])
    THEN skipWhitespace(data, pos + 1)
    ELSE pos

RECURSIVE parseStringScan(_, _)
\* The loop of parseString: a backslash skips two bytes, whatever follows it.
parseStringScan(data, pos) ==
    IF pos >= Len(data) THEN [ok |-> FALSE, pos |-> pos]
    ELSE IF data[pos + 1] = "\\" THEN parseStringScan(data, pos + 2)
    ELSE IF data[pos + 1] = "\"" THEN [ok |-> TRUE, pos |-> pos + 1]
    ELSE parseStringScan(data, pos + 1)

\* A parseString that takes the first quote it meets for the closing one.
parseStringNoEscape(data, pos) ==
    IF pos >= Len(data) \/ data[pos + 1] # "\""
    THEN [tok |-> "TokenError", pos |-> pos, value |-> <<>>]
    ELSE LET quotes == {j \in (pos + 1)..(Len(data) - 1) : data[j + 1] = "\""} IN
         IF quotes = {}
         THEN [tok |-> "TokenError", pos |-> Len(data), value |-> <<>>]
         ELSE LET j == CHOOSE q \in quotes : \A r \in quotes : q <= r IN
              [tok |-> "TokenString", pos |-> j + 1, value |-> Slice(data, pos + 1, j)]

\* parseString: the raw bytes between the quotes, escapes left as written.
parseString(data, pos) ==
    IF pos >= Len(data) \/ data[pos + 1] # "\""
    THEN [tok |-> "TokenError", pos |-> pos, value |-> <<>>]
    ELSE LET r == parseStringScan(data, pos + 1) IN
         IF r.ok
         THEN [tok |-> "TokenString", pos |-> r.pos,
               value |-> Slice(data, pos + 1, r.pos - 1)]
         ELSE [tok |-> "TokenError", pos |-> r.pos, value |-> <<>>]

parseNumber(data, pos) ==
    LET n == Len(data)
        err(p) == [tok |-> "TokenError", pos |-> p, value |-> <<>>]
        p1 == IF pos < n /\ data[pos + 1] = "-" THEN pos + 1 ELSE pos
    IN  IF p1 >= n \/ ~isDigit(data[p1 + 1]) THEN err(p1)
        ELSE
        LET p2 == SkipDigits(data, p1 + 1)
            hasDot == p2 < n /\ data[p2 + 1] = "."
            dotBad == hasDot /\ (p2 + 1 >= n \/ ~isDigit(data[p2 + 2]))
            p3 == IF hasDot /\ ~dotBad THEN SkipDigits(data, p2 + 1) ELSE p2
            hasExp == p3 < n /\ (data[p3 + 1] = "e" \/ data[p3 + 1] = "E")
            p4 == IF hasExp /\ p3 + 1 < n
                     /\ (data[p3 + 2] = "+" \/ data[p3 + 2] = "-")
                  THEN p3 + 2
                  ELSE IF hasExp THEN p3 + 1 ELSE p3
            expBad == hasExp /\ (p4 >= n \/ ~isDigit(data[p4 + 1]))
            p5 == IF hasExp /\ ~expBad THEN SkipDigits(data, p4) ELSE p4
        IN  IF dotBad THEN err(p2 + 1)
            ELSE IF expBad THEN err(p4)
            ELSE [tok |-> "TokenNumber", pos |-> p5, value |-> Slice(data, pos, p5)]

matchLiteral(data, pos, literal) ==
    IF pos + Len(literal) > Len(data) THEN [ok |-> FALSE, pos |-> pos]
    ELSE IF \E i \in 0..(Len(literal) - 1) : data[pos + i + 1] # literal[i + 1]
    THEN [ok |-> FALSE, pos |-> pos]
    ELSE [ok |-> TRUE, pos |-> pos + Len(literal)]

RECURSIVE skipValueFrom(_, _, _)
\* skipValue and its two loops.  where = "value" is skipValue entered at pos;
\* "object" and "array" are its loops over the members of an object and the
\* elements of an array, entered after the opening brace or bracket and
\* re-entered after each member.
skipValueFrom(data, pos, where) ==
    LET p1 == skipWhitespace(data, pos) IN
    IF p1 >= Len(data) THEN [ok |-> FALSE, pos |-> p1]
    ELSE
    LET c == data[p1 + 1] IN
    IF where = "object"
    THEN IF c = "}" THEN [ok |-> TRUE, pos |-> p1 + 1]
         ELSE IF c = "," THEN skipValueFrom(data, p1 + 1, "object")
         ELSE LET key == parseString(data, p1) IN
              IF key.tok # "TokenString" THEN [ok |-> FALSE, pos |-> key.pos]
              ELSE LET p2 == skipWhitespace(data, key.pos) IN
                   IF p2 >= Len(data) \/ data[p2 + 1] # ":"
                   THEN [ok |-> FALSE, pos |-> p2]
                   ELSE LET v == skipValueFrom(data, p2 + 1, "value") IN
                        IF ~v.ok THEN v ELSE skipValueFrom(data, v.pos, "object")
    ELSE IF where = "array"
    THEN IF c = "]" THEN [ok |-> TRUE, pos |-> p1 + 1]
         ELSE IF c = "," THEN skipValueFrom(data, p1 + 1, "array")
         ELSE LET v == skipValueFrom(data, p1, "value") IN
              IF ~v.ok THEN v ELSE skipValueFrom(data, v.pos, "array")
    ELSE IF c = "{" THEN skipValueFrom(data, p1 + 1, "object")
    ELSE IF c = "[" THEN skipValueFrom(data, p1 + 1, "array")
    ELSE IF c = "\""
    THEN LET s == parseString(data, p1) IN
         [ok |-> s.tok = "TokenString", pos |-> s.pos]
    ELSE IF c = "t" THEN matchLiteral(data, p1, <<"t", "r", "u", "e">>)
    ELSE IF c = "f" THEN matchLiteral(data, p1, <<"f", "a", "l", "s", "e">>)
    ELSE IF c = "n" THEN matchLiteral(data, p1, <<"n", "u", "l", "l">>)
    ELSE IF c = "-" \/ isDigit(c)
    THEN LET num == parseNumber(data, p1) IN
         [ok |-> num.tok = "TokenNumber", pos |-> num.pos]
    ELSE [ok |-> FALSE, pos |-> p1]

skipValue(data, pos) == skipValueFrom(data, pos, "value")

(***************************************************************************)
(* Extract                                                                 *)
(***************************************************************************)
\* What a run of a primitive or of Extract leaves behind: the cursor, the
\* returned slice with its bounds in data, and the SyntaxError Extract took
\* from its pool on the way ("" for none).  Extract returns (bytes, found)
\* alone; its deferred function hands the SyntaxError back to the pool.
NoOutcome ==
    [ok |-> FALSE, found |-> FALSE, pos |-> 0, start |-> 0, end |-> 0,
     bytes |-> <<>>, isNil |-> TRUE, syntaxErr |-> ""]

ExtractFail(pos, msg) == [NoOutcome EXCEPT !.pos = pos, !.syntaxErr = msg]

KeyMiss(pos, msg) == [found |-> FALSE, pos |-> pos, msg |-> msg]

RECURSIVE ExtractFindKey(_, _, _)
\* The inner loop of Extract scans the members of an object for the key
\* segment; on a match the cursor stands after the colon.  Its body is split
\* where it moves the cursor, last step first.

\* After the value of a member that did not match, p3 past the whitespace.
ExtractAfterValue(data, p3, segment) ==
    IF p3 >= Len(data) THEN KeyMiss(p3, "unexpected end of JSON input")
    ELSE IF data[p3 + 1] = "}" THEN KeyMiss(p3, "")
    ELSE IF data[p3 + 1] # "," THEN KeyMiss(p3, "expected comma after object property")
    ELSE ExtractFindKey(data, p3 + 1, segment)

\* The value of a member that did not match has been skipped with outcome v.
ExtractSkipMember(data, v, segment) ==
    IF ~v.ok THEN KeyMiss(v.pos, "invalid JSON value")
    ELSE ExtractAfterValue(data, skipWhitespace(data, v.pos), segment)

\* The key has been parsed, p2 past the whitespace after it.
ExtractAfterKey(data, key, p2, segment) ==
    IF p2 >= Len(data) \/ data[p2 + 1] # ":"
    THEN KeyMiss(p2, "expected colon after object key")
    ELSE IF key.value = segment THEN [found |-> TRUE, pos |-> p2 + 1, msg |-> ""]
    ELSE ExtractSkipMember(data, skipValue(data, p2 + 1), segment)

\* parseString has been called for the key, with outcome key.
ExtractKey(data, key, segment) ==
    IF key.tok # "TokenString" THEN KeyMiss(key.pos, "expected string key in object")
    ELSE ExtractAfterKey(data, key, skipWhitespace(data, key.pos), segment)

\* At the start of a member, p1 past the whitespace.
ExtractMember(data, p1, segment) ==
    IF p1 >= Len(data) THEN KeyMiss(p1, "unexpected end of JSON input")
    ELSE IF data[p1 + 1] = "}" THEN KeyMiss(p1, "")
    ELSE ExtractKey(data, parseString(data, p1), segment)

ExtractFindKey(data, pos, segment) ==
    ExtractMember(data, skipWhitespace(data, pos), segment)

\* An ExtractValue that hands out a string without its quotes.
ExtractValueUnquoted(data, start, v) ==
    IF ~v.ok THEN ExtractFail(v.pos, "invalid JSON value")
    ELSE LET q == IF data[start + 1] = "\"" THEN 1 ELSE 0 IN
         [NoOutcome EXCEPT !.ok = TRUE, !.found = TRUE, !.pos = v.pos,
                           !.start = start + q, !.end = v.pos - q,
                           !.bytes = Slice(data, start + q, v.pos - q),
                           !.isNil = FALSE]

\* The last segment has been found: the slice from start to where skipValue
\* leaves the cursor.
ExtractValue(data, start, v) ==
    IF ~v.ok THEN ExtractFail(v.pos, "invalid JSON value")
    ELSE [NoOutcome EXCEPT !.ok = TRUE, !.found = TRUE, !.pos = v.pos,
                           !.start = start, !.end = v.pos,
                           !.bytes = Slice(data, start, v.pos), !.isNil = FALSE]

RECURSIVE ExtractSegments(_, _, _, _, _)
\* The range loop of Extract at its iteration i over the segments of orig;
\* path is what the loop body has re-sliced the parameter to by then.

\* The inner loop has ended with outcome k.
ExtractAfterFind(data, k, orig, path, i) ==
    IF ~k.found THEN ExtractFail(k.pos, k.msg)
    ELSE IF Len(path) = 1
    THEN ExtractValue(data, skipWhitespace(data, k.pos),
                      skipValue(data, skipWhitespace(data, k.pos)))
    ELSE ExtractSegments(data, k.pos, orig, Tail(path), i + 1)

\* At the start of an iteration, p1 past the whitespace.
ExtractObject(data, p1, orig, path, i) ==
    IF p1 >= Len(data) THEN ExtractFail(p1, "unexpected end of JSON input")
    ELSE IF data[p1 + 1] # "{" THEN ExtractFail(p1, "")
    ELSE ExtractAfterFind(data, ExtractFindKey(data, p1 + 1, orig[i]), orig, path, i)

ExtractSegments(data, pos, orig, path, i) ==
    IF i > Len(orig) THEN ExtractFail(pos, "")
    ELSE ExtractObject(data, skipWhitespace(data, pos), orig, path, i)

Extract(data, path) ==
    IF Len(path) = 0
    THEN [NoOutcome EXCEPT !.ok = TRUE, !.found = TRUE, !.end = Len(data),
                           !.bytes = data, !.isNil = FALSE]
    ELSE ExtractSegments(data, skipWhitespace(data, 0), path, path, 1)

\* The pair Extract returns to its caller.
Returned(out) == [bytes |-> out.bytes, isNil |-> out.isNil, found |-> out.found]

(***************************************************************************)
(* JSON documents the lexical primitives and Extract are run over          *)
(***************************************************************************)
MaxDepth == 2
MaxPath == 2

KeyA == <<"a">>
KeyB == <<"b">>
Keys == {KeyA, KeyB}

Quoted(s) == <<"\"">> \o s \o <<"\"">>

\* Numbers with fraction and exponent, strings with an escaped quote, an
\* escaped backslash and a brace inside, and the three literals.
LexScalars ==
    {<<"1", "0">>, <<"-", "2", ".", "5", "e", "1">>,
     Quoted(<<"x">>), Quoted(<<"\\", "\"", "}">>), Quoted(<<"\\", "\\">>),
     <<"n", "u", "l", "l">>, <<"t", "r", "u", "e">>, <<"f", "a", "l", "s", "e">>}

Scalar(text) == [k |-> "scalar", text |-> text, items |-> <<>>]
Arr(vals) ==
    [k |-> "arr", text |-> <<>>,
     items |-> [i \in 1..Len(vals) |-> [key |-> <<>>, val |-> vals[i]]]]
Obj(items) == [k |-> "obj", text |-> <<>>, items |-> items]
Member(key, val) == [key |-> key, val |-> val]

One == Scalar(<<"1">>)

RECURSIVE Trees(_)
\* The documents of nesting depth at most n.
Trees(n) ==
    IF n = 0 THEN {Scalar(s) : s \in LexScalars}
    ELSE LET sub == Trees(n - 1) IN
         sub \cup {Arr(<<>>), Obj(<<>>)}
             \cup {Arr(<<v>>) : v \in sub}
             \cup {Arr(<<v, One>>) : v \in sub}
             \cup {Obj(<<Member(KeyA, v)>>) : v \in sub}
             \cup {Obj(<<Member(KeyA, v), Member(KeyB, One)>>) : v \in sub}
             \cup {Obj(<<Member(KeyB, One), Member(KeyA, v)>>) : v \in sub}

Address == <<"a", "d", "d", "r", "e", "s", "s">>
City == <<"c", "i", "t", "y">>
Anytown == Quoted(<<"A", "n", "y", "t", "o", "w", "n">>)

\* {"name":"x","address":{"street":1,"city":"Anytown"}}
ExampleTree ==
    Obj(<<Member(<<"n", "a", "m", "e">>, Scalar(Quoted(<<"x">>))),
          Member(Address,
                 Obj(<<Member(<<"s", "t", "r", "e", "e", "t">>, One),
                       Member(City, Scalar(Anytown))>>))>>)

ExamplePath == <<Address, City>>

Spacings == {<<>>, <<" ">>}

RECURSIVE RenderFrom(_, _, _)
\* The JSON text of a document (i = 0) or of its items from the i-th on,
\* with sp wherever whitespace is allowed.
RenderFrom(t, sp, i) ==
    IF i = 0
    THEN IF t.k = "scalar" THEN t.text
         ELSE IF t.k = "arr" THEN <<"[">> \o sp \o RenderFrom(t, sp, 1) \o <<"]">>
         ELSE <<"{">> \o sp \o RenderFrom(t, sp, 1) \o <<"}">>
    ELSE IF i > Len(t.items) THEN <<>>
    ELSE (IF t.k = "obj" THEN Quoted(t.items[i].key) \o sp \o <<":">> \o sp ELSE <<>>)
         \o RenderFrom(t.items[i].val, sp, 0) \o sp
         \o (IF i < Len(t.items) THEN <<",">> \o sp ELSE <<>>)
         \o RenderFrom(t, sp, i + 1)

Render(t, sp) == RenderFrom(t, sp, 0)

RECURSIVE Lookup(_, _)
\* The document stored under a path of keys, the first member of a name winning.
Lookup(t, path) ==
    IF Len(path) = 0 THEN [present |-> TRUE, val |-> t]
    ELSE IF t.k # "obj" THEN [present |-> FALSE, val |-> t]
    ELSE LET hits == {i \in 1..Len(t.items) : t.items[i].key = path[1]} IN
         IF hits = {} THEN [present |-> FALSE, val |-> t]
         ELSE LET first == CHOOSE i \in hits : \A j \in hits : i <= j IN
              Lookup(t.items[first].val, Tail(path))

Paths == UNION {[1..n -> Keys] : n \in 0..MaxPath}

Suffixes == {<<>>, <<",">>, <<" ", "}">>}

Task(call, kind, t, sp, data, valueEnd, path) ==
    [call |-> call, kind |-> kind, tree |-> t, sp |-> sp, data |-> data,
     valueEnd |-> valueEnd, path |-> path, done |-> FALSE, out |-> NoOutcome]

\* skipValue at the start of: whitespace, a document, what follows it.
SkipTasks ==
    {Task("skipValue", "wf", t, sp, sp \o Render(t, sp) \o suffix,
          Len(sp \o Render(t, sp)), <<>>) :
        t \in Trees(MaxDepth), sp \in Spacings, suffix \in Suffixes}

\* Extract over a well-formed document.
ExtractTasks ==
    {Task("Extract", "wf", t, sp, sp \o Render(t, sp), 0, path) :
        t \in Trees(MaxDepth), sp \in Spacings, path \in Paths}
    \cup {Task("Extract", "wf", ExampleTree, sp, Render(ExampleTree, sp), 0, path) :
            sp \in Spacings, path \in {ExamplePath, <<Address>>, <<City>>}}

\* Extract over a document cut short: a proper prefix of an object's text.
TruncatedTasks ==
    UNION {{Task("Extract", "truncated", t, <<>>, SubSeq(Render(t, <<>>), 1, n), 0, path) :
                n \in 1..(Len(Render(t, <<>>)) - 1), path \in Paths} :
            t \in {u \in Trees(1) : u.k = "obj"}}

LexerTasks == SkipTasks \cup ExtractTasks \cup TruncatedTasks

InitLexer ==
    /\ px \in LexerTasks
    /\ source = <<>> /\ reader = <<>> /\ d = <<>> /\ rv = <<>>
    /\ pc = "off" /\ results = <<>> /\ dests = <<>>
    /\ rt = <<>>
    /\ bufs = <<>> /\ pools = <<>> /\ procs = <<>> /\ stats = <<>>
    /\ fieldCache = <<>> /\ callers = <<>> /\ computed = <<>>
    /\ bw = <<>> /\ enc = <<>> /\ um = <<>> /\ ms = <<>>
    /\ tk = <<>> /\ pa = <<>> /\ gobj = <<>>

RunSkipValue ==
    /\ px.call = "skipValue" /\ ~px.done
    /\ LET r == skipValue(px.data, 0) IN
       px' = [px EXCEPT !.done = TRUE,
                        !.out = [NoOutcome EXCEPT !.ok = r.ok, !.pos = r.pos]]
    /\ UNCHANGED <<decoderVars, codecVars, poolVars, restVars>>

RunExtract ==
    /\ px.call = "Extract" /\ ~px.done
    /\ px' = [px EXCEPT !.done = TRUE, !.out = Extract(px.data, px.path)]
    /\ UNCHANGED <<decoderVars, codecVars, poolVars, restVars>>

NextLexer == RunSkipValue \/ RunExtract

(***************************************************************************)
(* Claims about Extract and skipValue                                      *)
(***************************************************************************)
\* C4: whenever Extract reports found, the slice it returns is data[s:e] with
\* 0 <= s <= e <= len(data), and over a well-formed document it is exactly
\* the text of the value stored under the path, quotes included.
C4_ExtractReturnsValueBytes ==
    (px.call = "Extract" /\ px.done /\ px.out.found) =>
        /\ 0 <= px.out.start /\ px.out.start <= px.out.end
        /\ px.out.end <= Len(px.data)
        /\ px.out.bytes = Slice(px.data, px.out.start, px.out.end)
        /\ (px.kind = "wf" /\ Len(px.path) > 0) =>
              LET l == Lookup(px.tree, px.path) IN
              l.present /\ px.out.bytes = Render(l.val, px.sp)

C4_Witness ==
    /\ px.call = "Extract" /\ px.done /\ px.out.found
    /\ px.tree = ExampleTree /\ px.path = ExamplePath /\ px.sp = <<" ">>
    /\ px.out.bytes = Anytown

\* What Extract returns when the path is absent.
NotFoundReturn == [bytes |-> <<>>, isNil |-> TRUE, found |-> FALSE]

\* C5: over a well-formed document that lacks the path Extract returns
\* found = false without an error, and over malformed input what it returns
\* differs from that not-found return.
C5_MalformedIsToldApart ==
    (px.call = "Extract" /\ px.done) =>
        /\ (px.kind = "wf" /\ ~Lookup(px.tree, px.path).present) =>
              (Returned(px.out) = NotFoundReturn /\ px.out.syntaxErr = "")
        /\ px.kind = "truncated" => Returned(px.out) # NotFoundReturn

\* C6: started at (whitespace before) a well-formed value of any nesting
\* depth, skipValue returns true with the cursor on the first byte after it.
C6_SkipValueStopsAfterValue ==
    (px.call = "skipValue" /\ px.done) =>
        (px.out.ok /\ px.out.pos = px.valueEnd)

C6_Witness ==
    /\ px.call = "skipValue" /\ px.done /\ px.out.ok
    /\ px.tree.k = "obj" /\ Len(px.tree.items) = 2
    /\ px.tree.items[2].val.k = "arr" /\ Len(px.tree.items[2].val.items) = 2
    /\ px.sp = <<" ">>
    /\ px.out.pos = px.valueEnd /\ px.valueEnd < Len(px.data)

(***************************************************************************)
(* Buffer.  buf.buf is a slice: mem is what its backing array holds, as    *)
(* far as it has ever been written (zero bytes follow up to cap); len and  *)
(* cap are len(buf.buf) and cap(buf.buf); off is buf.off.                  *)
(***************************************************************************)
NewBuffer(capacity) == [mem |-> <<>>, len |-> 0, cap |-> capacity, off |-> 0]

\* The byte at index i (from 1) of the backing array.
MemAt(b, i) == IF i <= Len(b.mem) THEN b.mem[i] ELSE NUL

\* b.buf[:n], the first n bytes of the backing array.
Prefix(b, n) == [i \in 1..n |-> MemAt(b, i)]

RECURSIVE BitOr(_, _)
\* x | y on non-negative integers.
BitOr(x, y) ==
    IF x = 0 THEN y
    ELSE IF y = 0 THEN x
    ELSE (IF x % 2 = 1 \/ y % 2 = 1 THEN 1 ELSE 0) + 2 * BitOr(x \div 2, y \div 2)

\* x |= x >> k
Smear(x, k) == BitOr(x, x \div (2 ^ k))

\* The rounding of grow: x--, smear by 1, 2, 4 and 8, x++.
RoundUp16(x) == Smear(Smear(Smear(Smear(x - 1, 1), 2), 4), 8) + 1

\* The rounding of getBufferSize: as RoundUp16, with a smear by 16 as well.
RoundUp32(x) == Smear(Smear(Smear(Smear(Smear(x - 1, 1), 2), 4), 8), 16) + 1

RECURSIVE DoubleUntil(_, _)
\* for newCap < needed { newCap <<= 1 }
DoubleUntil(newCap, needed) ==
    IF newCap < needed THEN DoubleUntil(newCap * 2, needed) ELSE newCap

maxBufferSize == 33554432

\* The capacity grow gives the new backing array.
growCap(curCap, needed) ==
    LET newCap == IF curCap = 0 THEN DoubleUntil(64, needed)
                  ELSE IF curCap < 512 THEN RoundUp16(Max(curCap * 4, needed))
                  ELSE IF curCap < 8192 THEN Max(curCap * 2, needed)
                  ELSE Max(curCap + (curCap \div 2), needed)
    IN  IF newCap > maxBufferSize /\ needed <= maxBufferSize
        THEN maxBufferSize ELSE newCap

\* Buffer.grow: make room for n bytes after off.  Within capacity the slice
\* is re-sliced to off + n; otherwise a new array takes over buf[:off].
grow(b, n) ==
    IF b.off + n <= b.cap THEN [b EXCEPT !.len = b.off + n]
    ELSE [mem |-> Prefix(b, Min(b.off, Len(b.mem))), len |-> b.off + n,
          cap |-> growCap(b.cap, b.off + n), off |-> b.off]

\* copy(b.buf[b.off:], src): the buffer after it, with off moved on by the
\* number of bytes copied when advance is set.
copyAtOff(b, src, advance) ==
    LET n == CopyLen(b.len - b.off, Len(src))
        hi == IF n = 0 THEN Len(b.mem) ELSE Max(Len(b.mem), b.off + n)
    IN  [b EXCEPT !.mem = [i \in 1..hi |->
                             IF i > b.off /\ i <= b.off + n
                             THEN src[i - b.off] ELSE MemAt(b, i)],
                  !.off = IF advance THEN b.off + n ELSE b.off]

\* Buffer.Write: grow, then copy; off stays where it was.
Write(b, p) == copyAtOff(grow(b, Len(p)), p, FALSE)

\* Buffer.WriteByte: grow(1), store at off, off++.
WriteByte(b, c) == copyAtOff(grow(b, 1), <<c>>, TRUE)

\* Buffer.WriteString: grows only when off + len(s) exceeds the capacity,
\* copies what fits below len(b.buf) and moves off on by that much.
WriteString(b, s) ==
    copyAtOff(IF b.off + Len(s) > b.cap THEN grow(b, Len(s)) ELSE b, s, TRUE)

\* A Reset that leaves off where it is.
ResetLen(b) == [b EXCEPT !.len = 0]

\* Buffer.Reset
Reset(b) == [b EXCEPT !.len = 0, !.off = 0]

\* Buffer.Bytes: b.buf[b.off:]
Bytes(b) == [i \in 1..Max(b.len - b.off, 0) |-> MemAt(b, b.off + i)]

\* escapeMap: the escape sequence of a byte, <<>> for a byte that has none.
escapeMap(c) ==
    IF c = "\"" THEN <<"\\", "\"">>
    ELSE IF c = "\\" THEN <<"\\", "\\">>
    ELSE IF c = "\n" THEN <<"\\", "n">>
    ELSE IF c = "\r" THEN <<"\\", "r">>
    ELSE IF c = "\t" THEN <<"\\", "t">>
    ELSE <<>>

\* c < 0x20
isControl(c) == c = CTRL \/ c = NUL \/ c = "\n" \/ c = "\r" \/ c = "\t"

needsEscaping(s) ==
    \E i \in 1..Len(s) : isControl(s[i]) \/ s[i] = "\"" \/ s[i] = "\\"

countEscapeChars(s) ==
    Cardinality({i \in 1..Len(s) : isControl(s[i]) \/ s[i] = "\"" \/ s[i] = "\\"})

\* The least index i >= start (from 1) of s whose byte has an escapeMap entry,
\* or 0 when there is none.
nextEscape(s, start) ==
    IF \E i \in start..Len(s) : escapeMap(s[i]) # <<>>
    THEN CHOOSE i \in start..Len(s) :
            /\ escapeMap(s[i]) # <<>>
            /\ \A j \in start..(i - 1) : escapeMap(s[j]) = <<>>
    ELSE 0

RECURSIVE writeEscapedLoop(_, _, _)
\* The loop of writeEscapedStringString with the unescaped portion starting at
\* index start (from 1): up to the next byte that has an escapeMap entry the
\* portion is copied as it is, then the escape sequence; the rest of s last.
writeEscapedLoop(b, s, start) ==
    IF nextEscape(s, start) = 0
    THEN IF start <= Len(s) THEN copyAtOff(b, SubSeq(s, start, Len(s)), TRUE) ELSE b
    ELSE writeEscapedLoop(
             copyAtOff(IF start < nextEscape(s, start)
                       THEN copyAtOff(b, SubSeq(s, start, nextEscape(s, start) - 1), TRUE)
                       ELSE b,
                       escapeMap(s[nextEscape(s, start)]), TRUE),
             s, nextEscape(s, start) + 1)

\* writeEscapedStringString on a Buffer: grow(len(s) + 16), then the loop.
writeEscapedStringString(b, s) == writeEscapedLoop(grow(b, Len(s) + 16), s, 1)

(***************************************************************************)
(* Go values of the supported shapes, by reflect.Kind                      *)
(***************************************************************************)
\* t is the Go type: bool, int, string, float64, Number, *int, []int, []string,
\* interface{}, or one of the struct types
\*     type Person struct { Name string `json:"name"`; Age int `json:"age"` }
\*     type Item struct {
\*         A int    `json:"a,omitempty"`
\*         B string `json:"b,omitempty"`
\*         c string
\*         D string `json:"-"`
\*         E bool   `json:",omitempty"`
\*         F string
\*     }
\*     type Count struct { N int `json:"n,string"`; M int `json:"m"` }
\* elems holds the elements of a slice, the field values of a struct in
\* declaration order, and the dynamic value of an interface{} that is not nil.
\* A *int that is not nil holds in n the int it points to.  A float64 holds
\* in s the shortest decimal text of its value.
GoValue(t, b, n, s, isNil, elems) ==
    [t |-> t, b |-> b, n |-> n, s |-> s, isNil |-> isNil, elems |-> elems]

BoolV(b) == GoValue("bool", b, 0, <<>>, FALSE, <<>>)
IntV(n) == GoValue("int", FALSE, n, <<>>, FALSE, <<>>)
StringV(s) == GoValue("string", FALSE, 0, s, FALSE, <<>>)
NilPtrV == GoValue("*int", FALSE, 0, <<>>, TRUE, <<>>)
PtrV(n) == GoValue("*int", FALSE, n, <<>>, FALSE, <<>>)
Float64V(text) == GoValue("float64", FALSE, 0, text, FALSE, <<>>)
NumberV(text) == GoValue("Number", FALSE, 0, text, FALSE, <<>>)
NilInterfaceV == GoValue("interface{}", FALSE, 0, <<>>, TRUE, <<>>)
InterfaceV(x) == GoValue("interface{}", FALSE, 0, <<>>, FALSE, <<x>>)
SliceV(t, elems) == GoValue(t, FALSE, 0, <<>>, FALSE, elems)
NilSliceV(t) == GoValue(t, FALSE, 0, <<>>, TRUE, <<>>)
PersonV(name, age) == GoValue("Person", FALSE, 0, <<>>, FALSE, <<StringV(name), IntV(age)>>)
ItemV(a, b, c, dd, e, f) ==
    GoValue("Item", FALSE, 0, <<>>, FALSE,
            <<IntV(a), StringV(b), StringV(c), StringV(dd), BoolV(e), StringV(f)>>)
CountV(n, m) == GoValue("Count", FALSE, 0, <<>>, FALSE, <<IntV(n), IntV(m)>>)

StructTypes == {"Person", "Item", "Count"}

Kind(t) ==
    CASE t = "bool" -> "Bool"
      [] t = "int" -> "Int"
      [] t = "string" -> "String"
      [] t = "Number" -> "String"
      [] t = "float64" -> "Float64"
      [] t = "interface{}" -> "Interface"
      [] t = "*int" -> "Ptr"
      [] t = "[]int" -> "Slice"
      [] t = "[]string" -> "Slice"
      [] t \in StructTypes -> "Struct"

\* t.Elem() of a slice or pointer type.
ElemType(t) == IF t = "[]string" THEN "string" ELSE "int"

\* reflect.Zero(t)
Zero(t) ==
    CASE t = "bool" -> BoolV(FALSE)
      [] t = "int" -> IntV(0)
      [] t = "string" -> StringV(<<>>)
      [] t = "Number" -> NumberV(<<>>)
      [] t = "float64" -> Float64V(<<"0">>)
      [] t = "interface{}" -> NilInterfaceV
      [] t = "*int" -> NilPtrV
      [] t = "[]int" -> NilSliceV(t)
      [] t = "[]string" -> NilSliceV(t)
      [] t = "Person" -> PersonV(<<>>, 0)
      [] t = "Item" -> ItemV(0, <<>>, <<>>, <<>>, FALSE, <<>>)
      [] t = "Count" -> CountV(0, 0)

(***************************************************************************)
(* Struct layouts: computeStructFields and the field cache                 *)
(***************************************************************************)
omitemptyOption == <<"o", "m", "i", "t", "e", "m", "p", "t", "y">>
stringOption == <<"s", "t", "r", "i", "n", "g">>

\* reflect.StructField: the Go name, whether PkgPath is empty (the field is
\* exported) and the value of the json key of the tag.
StructField(name, exported, tag) == [Name |-> name, exported |-> exported, tag |-> tag]

\* t.Field(i) for i = 0, 1, ..., as a sequence.
TypeFields(t) ==
    CASE t = "Person" ->
            <<StructField(<<"N", "a", "m", "e">>, TRUE, <<"n", "a", "m", "e">>),
              StructField(<<"A", "g", "e">>, TRUE, <<"a", "g", "e">>)>>
      [] t = "Item" ->
            <<StructField(<<"A">>, TRUE, <<"a", ",">> \o omitemptyOption),
              StructField(<<"B">>, TRUE, <<"b", ",">> \o omitemptyOption),
              StructField(<<"c">>, FALSE, <<>>),
              StructField(<<"D">>, TRUE, <<"-">>),
              StructField(<<"E">>, TRUE, <<",">> \o omitemptyOption),
              StructField(<<"F">>, TRUE, <<>>)>>
      [] t = "Count" ->
            <<StructField(<<"N">>, TRUE, <<"n", ",">> \o stringOption),
              StructField(<<"M">>, TRUE, <<"m">>)>>

\* The index of the first comma of tag (from 0), -1 when it has none.
commaIndex(tag) ==
    IF \E j \in 1..Len(tag) : tag[j] = ","
    THEN (CHOOSE j \in 1..Len(tag) :
              tag[j] = "," /\ \A k \in 1..(j - 1) : tag[k] # ",") - 1
    ELSE -1

RECURSIVE hasOmitEmpty(_, _)
\* The option loop over tagRest from index j (from 0): the options are the
\* stretches between commas, and the loop looks for omitempty only.
hasOmitEmpty(tagRest, j) ==
    IF j >= Len(tagRest) THEN FALSE
    ELSE LET end == IF \E k \in (j + 1)..Len(tagRest) : tagRest[k] = ","
                    THEN (CHOOSE k \in (j + 1)..Len(tagRest) :
                              tagRest[k] = ","
                              /\ \A m \in (j + 1)..(k - 1) : tagRest[m] # ",") - 1
                    ELSE Len(tagRest)
         IN  IF SubSeq(tagRest, j + 1, end) = omitemptyOption THEN TRUE
             ELSE hasOmitEmpty(tagRest, end + 1)

\* The Field computeStructFields appends.  It sets nameBytes,
\* nameWithQuotesBytes, index and omitEmpty; stringOpt, which marshalStruct
\* reads, is given no value and so keeps the zero value.
Field(name, index, omitEmpty) ==
    [nameBytes |-> name, nameWithQuotesBytes |-> <<"\"">> \o name \o <<"\"", ":">>,
     index |-> index, omitEmpty |-> omitEmpty, stringOpt |-> FALSE]

\* The JSON name computeStructFields gives field f: the part of the tag
\* before the first comma when that part is not empty, the whole tag when it
\* has no comma, the Go name when there is no tag.
fieldName(f) ==
    IF f.tag = <<>> THEN f.Name
    ELSE IF commaIndex(f.tag) = -1 THEN f.tag
    ELSE IF commaIndex(f.tag) > 0 THEN SubSeq(f.tag, 1, commaIndex(f.tag))
    ELSE f.Name

fieldOmitEmpty(f) ==
    /\ f.tag # <<>>
    /\ commaIndex(f.tag) # -1
    /\ hasOmitEmpty(SubSeq(f.tag, commaIndex(f.tag) + 2, Len(f.tag)), 0)

RECURSIVE computeFieldsFrom(_, _)
\* The loop of computeStructFields from field i (from 1) on: unexported
\* fields and fields tagged "-" are left out.
computeFieldsFrom(t, i) ==
    IF i > Len(TypeFields(t)) THEN <<>>
    ELSE LET f == TypeFields(t)[i] IN
         (IF ~f.exported \/ f.tag = <<"-">> THEN <<>>
          ELSE <<Field(fieldName(f), i - 1, fieldOmitEmpty(f))>>)
         \o computeFieldsFrom(t, i + 1)

computeStructFields(t) == computeFieldsFrom(t, 1)

\* structFields is getCachedFields: the layout stored for t or, on a miss,
\* the one computeStructFields makes; both hold the same fields.
structFields(t) == computeStructFields(t)

\* isEmptyValue
isEmptyValue(v) ==
    CASE Kind(v.t) \in {"Slice", "String"} ->
            Len(IF Kind(v.t) = "String" THEN v.s ELSE v.elems) = 0
      [] Kind(v.t) = "Bool" -> ~v.b
      [] Kind(v.t) = "Int" -> v.n = 0
      [] Kind(v.t) = "Ptr" -> v.isNil
      [] Kind(v.t) = "Struct" -> FALSE

(***************************************************************************)
(* strconv                                                                 *)
(***************************************************************************)
RECURSIVE AppendUint(_)
\* The decimal digits of a non-negative integer.
AppendUint(n) ==
    IF n < 10 THEN <<Digits[n + 1]>>
    ELSE AppendUint(n \div 10) \o <<Digits[(n % 10) + 1]>>

\* strconv.AppendInt(nil, n, 10)
AppendInt(n) == IF n < 0 THEN <<"-">> \o AppendUint(0 - n) ELSE AppendUint(n)

DigitValue(c) == (CHOOSE i \in 1..10 : Digits[i] = c) - 1

RECURSIVE ParseUint(_, _, _)
\* The value of the digits s[i..], acc being the value of those before.
ParseUint(s, i, acc) ==
    IF i > Len(s) THEN acc ELSE ParseUint(s, i + 1, acc * 10 + DigitValue(s[i]))

\* strconv.ParseInt(s, 10, 64) for values within int64: an optional sign and
\* at least one digit, nothing else.
ParseInt(s) ==
    LET signed == Len(s) > 0 /\ (s[1] = "-" \/ s[1] = "+")
        from == IF signed THEN 2 ELSE 1
    IN  IF from > Len(s) \/ \E i \in from..Len(s) : ~isDigit(s[i])
        THEN [ok |-> FALSE, n |-> 0]
        ELSE [ok |-> TRUE,
              n |-> IF signed /\ s[1] = "-" THEN 0 - ParseUint(s, from, 0)
                    ELSE ParseUint(s, from, 0)]

RECURSIVE StripLeadingZeros(_)
StripLeadingZeros(s) ==
    IF Len(s) > 1 /\ s[1] = "0" THEN StripLeadingZeros(Tail(s)) ELSE s

RECURSIVE StripTrailingZeros(_)
StripTrailingZeros(s) ==
    IF Len(s) > 0 /\ s[Len(s)] = "0"
    THEN StripTrailingZeros(SubSeq(s, 1, Len(s) - 1)) ELSE s

\* strconv.ParseFloat(s, 64) for decimal text without an exponent: a sign,
\* digits, and digits after a point.  The float64 is given by the shortest
\* decimal text of its value, so 1.50 and 01.5 give the same float64.
ParseFloat(s) ==
    LET signed == Len(s) > 0 /\ (s[1] = "-" \/ s[1] = "+")
        body == IF signed THEN Tail(s) ELSE s
        dot == IF \E i \in 1..Len(body) : body[i] = "."
               THEN CHOOSE j \in 1..Len(body) : body[j] = "." ELSE Len(body) + 1
        whole == SubSeq(body, 1, dot - 1)
        frac == SubSeq(body, dot + 1, Len(body))
    IN  IF Len(whole) + Len(frac) = 0
           \/ \E k \in 1..Len(whole) : ~isDigit(whole[k])
           \/ \E m \in 1..Len(frac) : ~isDigit(frac[m])
        THEN [ok |-> FALSE, f |-> <<"0">>]
        ELSE [ok |-> TRUE,
              f |-> (IF signed /\ s[1] = "-" THEN <<"-">> ELSE <<>>)
                    \o StripLeadingZeros(IF whole = <<>> THEN <<"0">> ELSE whole)
                    \o (IF StripTrailingZeros(frac) = <<>> THEN <<>>
                        ELSE <<".">> \o StripTrailingZeros(frac))]

(***************************************************************************)
(* Marshal                                                                 *)
(***************************************************************************)
jsonTrue == <<"t", "r", "u", "e">>
jsonFalse == <<"f", "a", "l", "s", "e">>
jsonNull == <<"n", "u", "l", "l">>

\* marshalValue of a string: quote, escaped text, quote.
marshalString(s, buf) ==
    WriteByte(writeEscapedStringString(WriteByte(buf, "\""), s), "\"")

\* The String case of marshalArray: WriteString when nothing needs escaping.
marshalArrayString(s, buf) ==
    WriteByte(IF needsEscaping(s)
              THEN writeEscapedStringString(WriteByte(buf, "\""), s)
              ELSE WriteString(WriteByte(buf, "\""), s),
              "\"")

\* marshalValue of the kinds that need no recursion.
marshalScalar(v, buf) ==
    CASE Kind(v.t) = "String" -> marshalString(v.s, buf)
      [] Kind(v.t) = "Bool" -> Write(buf, IF v.b THEN jsonTrue ELSE jsonFalse)
      [] Kind(v.t) = "Int" -> Write(buf, AppendInt(v.n))
      [] Kind(v.t) = "Ptr" ->
            IF v.isNil THEN Write(buf, jsonNull) ELSE Write(buf, AppendInt(v.n))

RECURSIVE SumSample(_, _)
\* totalLen of marshalArray over the first n strings of the slice.
SumSample(elems, n) ==
    IF n = 0 THEN 0
    ELSE SumSample(elems, n - 1) + Len(elems[n].s) + 2 + countEscapeChars(elems[n].s) * 5

\* estimatedSize of marshalArray for a slice that is not empty.
estimatedSize(v) ==
    2 + (Len(v.elems) - 1)
      + (IF ElemType(v.t) = "int" THEN Len(v.elems) * 20
         ELSE (SumSample(v.elems, Min(Len(v.elems), 3)) \div Min(Len(v.elems), 3))
                  * Len(v.elems))

RECURSIVE marshalElems(_, _, _)
\* The element loop of marshalArray from element i on.
marshalElems(v, buf, i) ==
    IF i > Len(v.elems) THEN buf
    ELSE marshalElems(
             v,
             IF ElemType(v.t) = "int"
             THEN Write(IF i > 1 THEN WriteByte(buf, ",") ELSE buf, AppendInt(v.elems[i].n))
             ELSE marshalArrayString(v.elems[i].s, IF i > 1 THEN WriteByte(buf, ",") ELSE buf),
             i + 1)

marshalArray(v, buf) ==
    WriteByte(
        marshalElems(
            v,
            WriteByte(IF buf.off + estimatedSize(v) > buf.cap
                      THEN grow(buf, estimatedSize(v)) ELSE buf,
                      "["),
            1),
        "]")

\* The string option of marshalStruct applies to these kinds.
isNumericKind(k) == k \in {"Int", "Bool"}

\* One field of marshalStruct that is not left out: the comma when a field
\* was emitted before it, the pre-rendered "name": and the value, between
\* quotes when the field has the string option and a numeric kind.  The
\* fields of the struct types here are of kinds marshalValue handles without
\* recursion.
marshalField(f, fv, buf, fieldCount) ==
    LET named == Write(IF fieldCount > 0 THEN WriteByte(buf, ",") ELSE buf,
                       f.nameWithQuotesBytes)
    IN  IF f.stringOpt /\ isNumericKind(Kind(fv.t))
        THEN WriteByte(marshalScalar(fv, WriteByte(named, "\"")), "\"")
        ELSE marshalScalar(fv, named)

RECURSIVE marshalFields(_, _, _, _)
\* The field loop of marshalStruct from field i of the layout on, fieldCount
\* fields having been emitted so far.
marshalFields(v, buf, i, fieldCount) ==
    IF i > Len(structFields(v.t)) THEN buf
    ELSE IF structFields(v.t)[i].omitEmpty
            /\ isEmptyValue(v.elems[structFields(v.t)[i].index + 1])
    THEN marshalFields(v, buf, i + 1, fieldCount)
    ELSE marshalFields(
             v,
             marshalField(structFields(v.t)[i],
                          v.elems[structFields(v.t)[i].index + 1], buf, fieldCount),
             i + 1, fieldCount + 1)

marshalStruct(v, buf) == WriteByte(marshalFields(v, WriteByte(buf, "{"), 1, 0), "}")

marshalValue(v, buf) ==
    CASE Kind(v.t) = "Slice" ->
            IF Len(v.elems) = 0 THEN WriteByte(WriteByte(buf, "["), "]")
            ELSE marshalArray(v, buf)
      [] Kind(v.t) = "Struct" -> marshalStruct(v, buf)
      [] OTHER -> marshalScalar(v, buf)

\* getBuffer asks for 256 bytes; the small class is made with that capacity.
DefaultBufferSize == 256

\* Marshal over a Buffer as the pool's New makes it: a copy of buf.buf[:buf.off].
Marshal(v) ==
    LET buf == marshalValue(v, NewBuffer(DefaultBufferSize)) IN Prefix(buf, buf.off)

(***************************************************************************)
(* Unmarshal.  A step returns the error ("" for nil), the cursor and the   *)
(* destination value as it stands.                                         *)
(***************************************************************************)
Outcome(err, pos, v) == [err |-> err, pos |-> pos, v |-> v]

\* A setNull that accepts null for a pointer and leaves the pointer as it is.
setNullKeepsPointer(v, pos) ==
    IF Kind(v.t) \in {"Interface", "Slice"}
    THEN Outcome("", pos, Zero(v.t))
    ELSE IF Kind(v.t) = "Ptr" THEN Outcome("", pos, v)
    ELSE Outcome("UnmarshalTypeError: null", pos, v)

setNull(v, pos) ==
    IF Kind(v.t) \in {"Interface", "Ptr", "Slice"}
    THEN Outcome("", pos, Zero(v.t))
    ELSE Outcome("UnmarshalTypeError: null", pos, v)

setBool(v, b, pos) ==
    IF Kind(v.t) = "Bool" THEN Outcome("", pos, [v EXCEPT !.b = b])
    ELSE IF Kind(v.t) = "Interface" THEN Outcome("", pos, InterfaceV(BoolV(b)))
    ELSE Outcome("UnmarshalTypeError: bool", pos, v)

\* setString stores the bytes parseString returned, as they are.
setString(v, s, pos) ==
    IF Kind(v.t) = "String" THEN Outcome("", pos, [v EXCEPT !.s = s])
    ELSE IF Kind(v.t) = "Interface" THEN Outcome("", pos, InterfaceV(StringV(s)))
    ELSE Outcome("UnmarshalTypeError: string", pos, v)

\* setNumber(v, s): it is given the destination and the text and nothing
\* else, so an interface{} destination always gets a float64.
setNumber(v, s, pos) ==
    IF Kind(v.t) = "Int"
    THEN IF ParseInt(s).ok THEN Outcome("", pos, [v EXCEPT !.n = ParseInt(s).n])
         ELSE Outcome("UnmarshalTypeError: number s", pos, v)
    ELSE IF Kind(v.t) = "Float64"
    THEN IF ParseFloat(s).ok THEN Outcome("", pos, Float64V(ParseFloat(s).f))
         ELSE Outcome("UnmarshalTypeError: number s", pos, v)
    ELSE IF Kind(v.t) = "Interface" /\ ParseFloat(s).ok
    THEN Outcome("", pos, InterfaceV(Float64V(ParseFloat(s).f)))
    ELSE Outcome("UnmarshalTypeError: number", pos, v)

\* The string case of unmarshalValue, parseString having returned str.
unmarshalString(str, v) ==
    IF str.tok # "TokenString" THEN Outcome("invalid string", str.pos, v)
    ELSE setString(v, str.value, str.pos)

\* The number case of unmarshalValue, parseNumber having returned num.
unmarshalNumber(num, v) ==
    IF num.tok # "TokenNumber" THEN Outcome("invalid number", num.pos, v)
    ELSE setNumber(v, num.value, num.pos)

\* fieldMap[key]: the place (from 1) among the field values of the field that
\* has the JSON name key, the last one when several have it; 0 when none has.
fieldIndex(t, key) ==
    IF \E i \in 1..Len(structFields(t)) : structFields(t)[i].nameBytes = key
    THEN structFields(t)[CHOOSE i \in 1..Len(structFields(t)) :
                             /\ structFields(t)[i].nameBytes = key
                             /\ \A j \in (i + 1)..Len(structFields(t)) :
                                    structFields(t)[j].nameBytes # key].index + 1
    ELSE 0

RECURSIVE unmarshalValue(_, _, _)
RECURSIVE unmarshalToSliceLoop(_, _, _, _)
RECURSIVE unmarshalToStructLoop(_, _, _)

\* An element has been unmarshalled with outcome elem: append and go on.
unmarshalToSliceAppend(data, elem, v, index) ==
    IF elem.err # "" THEN Outcome(elem.err, elem.pos, v)
    ELSE unmarshalToSliceLoop(data, elem.pos,
                              [v EXCEPT !.elems = Append(v.elems, elem.v)], index + 1)

\* In the loop of unmarshalToSlice, p1 past the whitespace.
unmarshalToSliceAt(data, p1, v, index) ==
    IF p1 >= Len(data) THEN Outcome("unexpected end of JSON input", p1, v)
    ELSE IF data[p1 + 1] = "]" THEN Outcome("", p1 + 1, v)
    ELSE IF index > 0 /\ data[p1 + 1] # ","
    THEN Outcome("expected comma after array element", p1, v)
    ELSE unmarshalToSliceAppend(
             data,
             unmarshalValue(data,
                            IF index > 0 THEN skipWhitespace(data, p1 + 1) ELSE p1,
                            Zero(ElemType(v.t))),
             v, index)

unmarshalToSliceLoop(data, pos, v, index) ==
    IF pos >= Len(data) THEN Outcome("unexpected end of JSON input", pos, v)
    ELSE unmarshalToSliceAt(data, skipWhitespace(data, pos), v, index)

\* unmarshalToSlice: skip '[', start from an empty slice.
unmarshalToSlice(data, pos, v) ==
    unmarshalToSliceLoop(data, pos + 1, SliceV(v.t, <<>>), 0)

\* The value of field i has been unmarshalled with outcome fv.
unmarshalToStructSet(data, fv, v, i) ==
    IF fv.err # "" THEN Outcome(fv.err, fv.pos, [v EXCEPT !.elems[i] = fv.v])
    ELSE unmarshalToStructLoop(data, fv.pos, [v EXCEPT !.elems[i] = fv.v])

\* The value of a key that names no field has been skipped with outcome sk.
unmarshalToStructSkip(data, sk, v) ==
    IF ~sk.ok THEN Outcome("invalid JSON value", sk.pos, v)
    ELSE unmarshalToStructLoop(data, sk.pos, v)

\* The key has been parsed, p3 past the whitespace after it.
unmarshalToStructColon(data, key, p3, v) ==
    IF p3 >= Len(data) \/ data[p3 + 1] # ":"
    THEN Outcome("expected colon after object key", p3, v)
    ELSE IF fieldIndex(v.t, key.value) = 0
    THEN unmarshalToStructSkip(data, skipValue(data, p3 + 1), v)
    ELSE unmarshalToStructSet(
             data,
             unmarshalValue(data, p3 + 1, v.elems[fieldIndex(v.t, key.value)]),
             v, fieldIndex(v.t, key.value))

\* parseString has been called for the key, with outcome key.
unmarshalToStructKey(data, key, v) ==
    IF key.tok # "TokenString" THEN Outcome("expected string key in object", key.pos, v)
    ELSE unmarshalToStructColon(data, key, skipWhitespace(data, key.pos), v)

\* In the loop of unmarshalToStruct, p1 past the whitespace: a comma, if one
\* is there, is skipped.
unmarshalToStructAt(data, p1, v) ==
    IF p1 >= Len(data) THEN Outcome("unexpected end of JSON input", p1, v)
    ELSE IF data[p1 + 1] = "}" THEN Outcome("", p1 + 1, v)
    ELSE unmarshalToStructKey(
             data,
             parseString(data, IF data[p1 + 1] = ","
                               THEN skipWhitespace(data, p1 + 1) ELSE p1),
             v)

unmarshalToStructLoop(data, pos, v) ==
    IF pos >= Len(data) THEN Outcome("unexpected end of JSON input", pos, v)
    ELSE unmarshalToStructAt(data, skipWhitespace(data, pos), v)

\* unmarshalToStruct: skip '{', then the loop over the pairs.
unmarshalToStruct(data, pos, v) == unmarshalToStructLoop(data, pos + 1, v)

\* unmarshalValue at p, past the whitespace: dispatch on the byte there.
\* null, true and false are taken at their first byte and skipped by length.
unmarshalAt(data, p, v) ==
    IF p >= Len(data) THEN Outcome("unexpected end of JSON input", p, v)
    ELSE IF data[p + 1] = "n" THEN setNull(v, p + 4)
    ELSE IF data[p + 1] = "t" THEN setBool(v, TRUE, p + 4)
    ELSE IF data[p + 1] = "f" THEN setBool(v, FALSE, p + 5)
    ELSE IF data[p + 1] = "\"" THEN unmarshalString(parseString(data, p), v)
    ELSE IF data[p + 1] = "{" /\ Kind(v.t) = "Struct" THEN unmarshalToStruct(data, p, v)
    ELSE IF data[p + 1] = "[" /\ Kind(v.t) = "Slice" THEN unmarshalToSlice(data, p, v)
    ELSE IF data[p + 1] = "-" \/ isDigit(data[p + 1])
    THEN unmarshalNumber(parseNumber(data, p), v)
    ELSE Outcome("invalid JSON value", p, v)

unmarshalValue(data, pos, v) == unmarshalAt(data, skipWhitespace(data, pos), v)

\* Unmarshal(data, &dst) with dst the zero value of type t.
Unmarshal(data, t) == unmarshalValue(data, 0, Zero(t))

(***************************************************************************)
(* The streaming Decoder (apexJSON.go).  One action is one iteration of a  *)
(* loop of the running Decode call, because the loops need not end.        *)
(***************************************************************************)
\* Bounds of the Decoder specification.
MaxCalls == 4

MaxToken == 8

MaxSrcLen == 2

\* refillBuffer reads into a temporary of this many bytes.
RefillSize == 512

DecAlphabet == {"1", " ", "[", "]", "{", "}", "\"", ",", ":"}

SampleValues == {<<"1">>, <<"[", "]">>, <<"\"", "a", "\"">>}

\* Three well-formed top-level values separated by whitespace.
ThreeValueSources ==
    {v1 \o <<" ">> \o v2 \o <<" ">> \o v3 \o tail :
        v1 \in SampleValues, v2 \in SampleValues, v3 \in SampleValues,
        tail \in {<<>>, <<"\n">>}}

SmallSources == UNION {[1..n -> DecAlphabet] : n \in 0..MaxSrcLen}

\* Numbers, each followed by whitespace.
NumberSources == {<<"1", ".", "5", "0", " ">>, <<"-", "0", "7", " ", "2", "\n">>}

\* What stands between the quotes of a string literal, unit by unit: plain
\* bytes, the bytes that are structural outside a string, and escapes.
StrPieces ==
    {<<"a">>, <<"{">>, <<"]">>, <<",">>, <<":">>, <<"\\", "\"">>, <<"\\", "\\">>}

ShortStrings == {<<"\"">> \o p \o <<"\"">> : p \in StrPieces}

StringLits ==
    {<<"\"">> \o p \o q \o <<"\"">> :
        p \in StrPieces, q \in {<<>>, <<"}">>, <<"\\", "\"">>}}

\* Top-level strings, arrays and objects, the nested ones with a string that
\* holds structural bytes or an escape.
FramedValues ==
    StringLits
    \cup {<<"[">> \o t \o <<"]">> : t \in ShortStrings}
    \cup {<<"{">> \o t \o <<":", "1", "}">> : t \in ShortStrings}
    \cup {<<"[", "[", "]", ",", "{", "}", "]">>}

\* What follows the value in the source.
FramedTails == {<<>>, <<"]">>, <<"\"", "}">>}

FramedSources == {v \o tail : v \in FramedValues, tail \in FramedTails}

Sources == ThreeValueSources \cup SmallSources \cup NumberSources \cup FramedSources

IsWhitespaceOnly(s) == \A i \in 1..Len(s) : isWhitespace(s[i])

\* The readers: one hands out a byte per Read, the other as much as the
\* temporary of refillBuffer takes.
ChunkSizes == {1, RefillSize}

\* What r.Read(temp) returns: the next bytes and no error, or (0, io.EOF) once
\* the source is used up.  A read that returns bytes together with io.EOF is
\* turned into (n, nil) by refillBuffer, so it is the same case.
ReadLen(r) == Min(Len(r.rem), Min(r.chunk, RefillSize))

ReaderAfterRead(r) == [r EXCEPT !.rem = SubSeq(r.rem, ReadLen(r) + 1, Len(r.rem))]

\* refillBuffer: the bytes read are appended to d.buf, io.EOF is not passed
\* on, and d.readPos is set to 0.
refillBuffer(dd, r) ==
    [dd EXCEPT !.buf = dd.buf \o SubSeq(r.rem, 1, ReadLen(r)), !.readPos = 0]

NewDecoder == [buf |-> <<>>, tokenBuf |-> <<>>, readPos |-> 0, useNumber |-> FALSE]

NoLocals == [depth |-> 0, inString |-> FALSE, escaped |-> FALSE, firstChar |-> NUL]

\* Unmarshal(value, v) at the end of Decode: the framed bytes are what the
\* destination is filled from.
DecodeValue(value) == [kind |-> "value", bytes |-> value]

DecodeEOF == [kind |-> "eof", bytes |-> <<>>]

DecodeError(msg) == [kind |-> "error", bytes |-> msg]

\* The destination of a Decode call, a variable of type interface{} that is
\* nil before the call, as the call leaves it: Decode hands the framed bytes
\* and the destination to Unmarshal, and nothing of the Decoder.
DecodeInto(value) == unmarshalValue(value, 0, NilInterfaceV)

\* The destination of a Decode call that returned before Unmarshal.
Untouched == Outcome("", 0, NilInterfaceV)

\* What a finished Decode call leaves to look at: the error of Unmarshal, the
\* destination, and the mode the Decoder dd was in during the call.
DestAfter(dd, out) == [useNumber |-> dd.useNumber, err |-> out.err, v |-> out.v]

\* A main loop that keeps no track of strings for the structural bytes.
readValueCharStructureInStrings(loc, tok, c) ==
    IF loc.inString /\ c \notin {"{", "}", "[", "]", ",", ":"} THEN
        IF loc.escaped THEN [loc |-> [loc EXCEPT !.escaped = FALSE], ret |-> "no"]
        ELSE IF c = "\\" THEN [loc |-> [loc EXCEPT !.escaped = TRUE], ret |-> "no"]
        ELSE IF c = "\"" THEN
            [loc |-> [loc EXCEPT !.inString = FALSE],
             ret |-> IF loc.depth = 0 /\ loc.firstChar = "\"" THEN "value" ELSE "no"]
        ELSE [loc |-> loc, ret |-> "no"]
    ELSE IF c = "\"" THEN [loc |-> [loc EXCEPT !.inString = ~loc.inString], ret |-> "no"]
    ELSE IF c = "{" \/ c = "[" THEN
        [loc |-> [loc EXCEPT !.depth = loc.depth + 1], ret |-> "no"]
    ELSE IF c = "}" \/ c = "]" THEN
        [loc |-> [loc EXCEPT !.depth = loc.depth - 1],
         ret |-> IF loc.depth - 1 = 0
                 THEN IF (loc.firstChar = "{" /\ c = "}") \/ (loc.firstChar = "[" /\ c = "]")
                      THEN "value" ELSE "mismatched"
                 ELSE IF loc.depth - 1 < 0 THEN "closing" ELSE "no"]
    ELSE IF isWhitespace(c) THEN
        [loc |-> loc,
         ret |-> IF loc.depth = 0 /\ loc.firstChar # "{" /\ loc.firstChar # "["
                    /\ loc.firstChar # "\""
                    /\ isCompleteLiteral(SubSeq(tok, 1, Len(tok) - 1))
                 THEN "literal" ELSE "no"]
    ELSE IF c = "," \/ c = ":" THEN
        [loc |-> loc, ret |-> IF loc.depth = 0 THEN "separator" ELSE "no"]
    ELSE [loc |-> loc, ret |-> "no"]

\* One byte c of readValue's main loop after it was appended to the token
\* buffer tok: the new locals, and whether readValue returns.
readValueChar(loc, tok, c) ==
    IF loc.inString THEN
        IF loc.escaped THEN [loc |-> [loc EXCEPT !.escaped = FALSE], ret |-> "no"]
        ELSE IF c = "\\" THEN [loc |-> [loc EXCEPT !.escaped = TRUE], ret |-> "no"]
        ELSE IF c = "\"" THEN
            [loc |-> [loc EXCEPT !.inString = FALSE],
             ret |-> IF loc.depth = 0 /\ loc.firstChar = "\"" THEN "value" ELSE "no"]
        ELSE [loc |-> loc, ret |-> "no"]
    ELSE IF c = "\"" THEN [loc |-> [loc EXCEPT !.inString = TRUE], ret |-> "no"]
    ELSE IF c = "{" \/ c = "[" THEN
        [loc |-> [loc EXCEPT !.depth = loc.depth + 1], ret |-> "no"]
    ELSE IF c = "}" \/ c = "]" THEN
        [loc |-> [loc EXCEPT !.depth = loc.depth - 1],
         ret |-> IF loc.depth - 1 = 0
                 THEN IF (loc.firstChar = "{" /\ c = "}") \/ (loc.firstChar = "[" /\ c = "]")
                      THEN "value" ELSE "mismatched"
                 ELSE IF loc.depth - 1 < 0 THEN "closing" ELSE "no"]
    ELSE IF isWhitespace(c) THEN
        [loc |-> loc,
         ret |-> IF loc.depth = 0 /\ loc.firstChar # "{" /\ loc.firstChar # "["
                    /\ loc.firstChar # "\""
                    /\ isCompleteLiteral(SubSeq(tok, 1, Len(tok) - 1))
                 THEN "literal" ELSE "no"]
    ELSE IF c = "," \/ c = ":" THEN
        [loc |-> loc, ret |-> IF loc.depth = 0 THEN "separator" ELSE "no"]
    ELSE [loc |-> loc, ret |-> "no"]

\* readValue has counted the whitespace after a top-level literal as read
\* (d.readPos++ at the head of the loop body) and takes that back.
unconsumeNothing(readPos) == readPos

unconsume(readPos) == readPos - 1

InitDecoder ==
    /\ source \in Sources
    /\ reader \in {[rem |-> source, chunk |-> k] : k \in ChunkSizes}
    /\ d = NewDecoder
    /\ rv = NoLocals
    /\ pc = "idle"
    /\ results = <<>>
    /\ dests = <<>>
    /\ px = <<>> /\ rt = <<>>
    /\ bufs = <<>> /\ pools = <<>> /\ procs = <<>> /\ stats = <<>>
    /\ fieldCache = <<>> /\ callers = <<>> /\ computed = <<>>
    /\ bw = <<>> /\ enc = <<>> /\ um = <<>> /\ ms = <<>>
    /\ tk = <<>> /\ pa = <<>> /\ gobj = <<>>

\* Decoder.UseNumber()
UseNumber ==
    /\ pc = "idle"
    /\ ~d.useNumber
    /\ d' = [d EXCEPT !.useNumber = TRUE]
    /\ UNCHANGED <<source, reader, rv, pc, results, dests>>
    /\ UNCHANGED <<lexerVars, codecVars, poolVars, restVars>>

\* The caller calls Decode.
DecodeCall ==
    /\ pc = "idle"
    /\ Len(results) < MaxCalls
    /\ pc' = "skipWhitespace"
    /\ UNCHANGED <<source, reader, d, rv, results, dests>>
    /\ UNCHANGED <<lexerVars, codecVars, poolVars, restVars>>

\* Decoder.skipWhitespace: one byte of the inner loop, or one refill with the
\* test that follows it.
SkipWhitespaceStep ==
    /\ pc = "skipWhitespace"
    /\ IF d.readPos < Len(d.buf)
       THEN /\ IF ~isWhitespace(d.buf[d.readPos + 1])
               THEN pc' = "readValue" /\ d' = d
               ELSE pc' = pc /\ d' = [d EXCEPT !.readPos = d.readPos + 1]
            /\ UNCHANGED <<reader, results, dests>>
       ELSE /\ d' = refillBuffer(d, reader)
            /\ reader' = ReaderAfterRead(reader)
            /\ IF Len(d'.buf) = 0
               THEN /\ pc' = "idle"
                    /\ results' = Append(results, DecodeEOF)
                    /\ dests' = Append(dests, DestAfter(d, Untouched))
               ELSE pc' = pc /\ results' = results /\ dests' = dests
    /\ UNCHANGED <<source, rv>>
    /\ UNCHANGED <<lexerVars, codecVars, poolVars, restVars>>

\* Decoder.readValue up to its main loop.  Decode calls it with a byte that is
\* no whitespace at d.buf[d.readPos], so neither the refill at the entry nor
\* the loop over leading whitespace does anything.
ReadValueEntry ==
    /\ pc = "readValue"
    /\ d.readPos < Len(d.buf)
    /\ ~isWhitespace(d.buf[d.readPos + 1])
    /\ d' = [d EXCEPT !.tokenBuf = <<>>]
    /\ rv' = [NoLocals EXCEPT !.firstChar = d.buf[d.readPos + 1]]
    /\ pc' = "mainLoop"
    /\ UNCHANGED <<source, reader, results, dests>>
    /\ UNCHANGED <<lexerVars, codecVars, poolVars, restVars>>

\* One iteration of readValue's main loop: the refill when the window is used
\* up (refillBuffer returns nil on io.EOF, so the branch for an error is not
\* taken), then one byte.  Returning puts oldBuf back, whose length the
\* deferred putTokenBuf sets to 0, and Decode hands the value to Unmarshal.
\* The token buffer is moved to the buffers list once it holds 4096 bytes;
\* MaxToken keeps it shorter, so the list stays empty and AppendBuffers copies
\* the one token buffer.
ReadValueStep ==
    /\ pc = "mainLoop"
    /\ Len(d.tokenBuf) < MaxToken
    /\ LET refill == d.readPos >= Len(d.buf)
           d1 == IF refill THEN refillBuffer(d, reader) ELSE d
           c == d1.buf[d1.readPos + 1]
           tok == Append(d1.tokenBuf, c)
           step == readValueChar(rv, tok, c)
       IN  /\ reader' = IF refill THEN ReaderAfterRead(reader) ELSE reader
           /\ IF step.ret = "no"
              THEN /\ d' = [d1 EXCEPT !.tokenBuf = tok, !.readPos = d1.readPos + 1]
                   /\ rv' = step.loc
                   /\ pc' = pc
                   /\ results' = results
                   /\ dests' = dests
              ELSE /\ d' = [d1 EXCEPT !.tokenBuf = <<>>,
                                      !.readPos = IF step.ret = "literal"
                                                  THEN unconsume(d1.readPos + 1)
                                                  ELSE d1.readPos + 1]
                   /\ rv' = NoLocals
                   /\ pc' = "idle"
                   /\ results' = Append(results,
                        CASE step.ret = "value" -> DecodeValue(tok)
                          [] step.ret = "literal" -> DecodeValue(SubSeq(tok, 1, Len(tok) - 1))
                          [] OTHER -> DecodeError(<<step.ret>>))
                   /\ dests' = Append(dests, DestAfter(d,
                        CASE step.ret = "value" -> DecodeInto(tok)
                          [] step.ret = "literal" -> DecodeInto(SubSeq(tok, 1, Len(tok) - 1))
                          [] OTHER -> Untouched))
    /\ UNCHANGED source
    /\ UNCHANGED <<lexerVars, codecVars, poolVars, restVars>>

NextDecoder ==
    UseNumber \/ DecodeCall \/ SkipWhitespaceStep \/ ReadValueEntry \/ ReadValueStep

(***************************************************************************)
(* Claims about the streaming Decoder                                      *)
(***************************************************************************)
\* The three values a source of ThreeValueSources is made of.
ThreeValuesOf(s) ==
    CHOOSE t \in SampleValues \X SampleValues \X SampleValues :
        \E tail \in {<<>>, <<"\n">>} :
            s = t[1] \o <<" ">> \o t[2] \o <<" ">> \o t[3] \o tail

\* C1: over a source of three whitespace-separated values the first three
\* Decode calls deliver the three values in source order and the fourth
\* returns end-of-input.
C1_ThreeValuesThenEOF ==
    source \in ThreeValueSources =>
        \A i \in 1..Len(results) :
            /\ i <= 3 => results[i] = DecodeValue(ThreeValuesOf(source)[i])
            /\ i = 4 => results[i] = DecodeEOF

\* C2: on a source that is empty or holds only whitespace every Decode call
\* returns, and returns end-of-input.
C2_WhitespaceOnlyIsEOF ==
    IsWhitespaceOnly(source) =>
        /\ <>(Len(results) >= 1)
        /\ [](\A i \in 1..Len(results) : results[i] = DecodeEOF)

\* The sources whose first value has a closer that does not match its opener.
MismatchedSources == {<<"[", "}">>, <<"{", "]">>}

\* The sources that end inside an object or array opened by their first byte.
EndsInside(s) ==
    /\ Len(s) > 0
    /\ s[1] \in {"[", "{"}
    /\ \A i \in 2..Len(s) : s[i] \in {"1", " ", ",", ":", "[", "{"}

\* C15: Decode returns a syntax error when the closer of the next top-level
\* value does not match its opener, when a ',' or ':' stands at depth 0, and,
\* at the step that finds the source used up, when the source ends inside an
\* unclosed object or array.
C15_SyntaxErrors ==
    /\ []((Len(results) >= 1
            /\ (source \in MismatchedSources
                \/ (Len(source) > 0 /\ source[1] \in {",", ":"})))
           => results[1].kind = "error")
    /\ [][(/\ pc = "mainLoop"
           /\ EndsInside(source)
           /\ rv.depth > 0
           /\ reader.rem = <<>>
           /\ d.readPos >= Len(d.buf))
          => (/\ pc' = "idle"
              /\ Len(results') = Len(results) + 1
              /\ results'[Len(results')].kind = "error")]_vars

\* The text of a JSON number.
IsNumberText(s) ==
    /\ isCompleteLiteral(s)
    /\ s[1] = "-" \/ isDigit(s[1])

\* C18: a Decode of a JSON number into an interface{} destination yields a
\* Number holding the text of the number when UseNumber was called on the
\* Decoder before, and a float64 when it was not.
C18_UseNumberKeepsText ==
    \A i \in 1..Len(results) :
        (results[i].kind = "value" /\ IsNumberText(results[i].bytes)) =>
            /\ dests[i].err = ""
            /\ dests[i].v = IF dests[i].useNumber
                            THEN InterfaceV(NumberV(results[i].bytes))
                            ELSE InterfaceV(Float64V(ParseFloat(results[i].bytes).f))

\* C20: every Decode call returns; the one exception made is a call whose
\* token has reached the longest the Decoder is followed to.
C20_DecodeReturns ==
    (pc # "idle") ~> (pc = "idle" \/ Len(d.tokenBuf) >= MaxToken)

\* A loop of the running Decode call has used up the window d.buf and calls
\* refillBuffer next.
RefillDue == pc \in {"skipWhitespace", "mainLoop"} /\ d.readPos >= Len(d.buf)

\* C21: no byte of the source is handed to the framer twice: d.buf holds
\* every byte read so far, so wherever a refill is due the read position that
\* refillBuffer leaves is the one it found, the index of the first byte not
\* yet consumed.
C21_RefillKeepsReadPos == RefillDue => refillBuffer(d, reader).readPos = d.readPos

\* The last Decode call has returned a top-level literal or number.
LiteralReturned ==
    /\ pc = "idle"
    /\ Len(results) > 0
    /\ results[Len(results)].kind = "value"
    /\ results[Len(results)].bytes[1] \notin {"{", "[", "\""}

MaxStrLen == 2

CodecBytes == {"a", "\"", "\\", "\n", CTRL}

CodecStrings(n) == UNION {[1..k -> CodecBytes] : k \in 0..n}

CodecInts == {0 - 12, 0 - 1, 0, 7, 10, 305}

CodecValues ==
    {BoolV(b) : b \in BOOLEAN}
    \cup {IntV(n) : n \in CodecInts}
    \cup {StringV(s) : s \in CodecStrings(MaxStrLen)}
    \cup {NilPtrV}
    \cup {SliceV("[]int", e) : e \in {<<>>, <<IntV(7)>>, <<IntV(0 - 1), IntV(305)>>}}
    \cup {SliceV("[]string", e) :
            e \in {<<>>} \cup {<<StringV(s)>> : s \in CodecStrings(1)}
                  \cup {<<StringV(<<"a">>), StringV(s)>> : s \in CodecStrings(1)}}
    \cup {PersonV(s, n) : s \in CodecStrings(1), n \in {0, 28}}

InitCodec ==
    /\ rt \in {[v |-> v, stage |-> "value", json |-> <<>>,
                back |-> Zero(v.t), err |-> ""] : v \in CodecValues}
    /\ source = <<>> /\ reader = <<>> /\ d = <<>> /\ rv = <<>>
    /\ pc = "off" /\ results = <<>> /\ dests = <<>>
    /\ px = <<>>
    /\ bufs = <<>> /\ pools = <<>> /\ procs = <<>> /\ stats = <<>>
    /\ fieldCache = <<>> /\ callers = <<>> /\ computed = <<>>
    /\ bw = <<>> /\ enc = <<>> /\ um = <<>> /\ ms = <<>>
    /\ tk = <<>> /\ pa = <<>> /\ gobj = <<>>

MarshalCall ==
    /\ rt.stage = "value"
    /\ rt' = [rt EXCEPT !.stage = "marshalled", !.json = Marshal(rt.v)]
    /\ UNCHANGED <<decoderVars, lexerVars, poolVars, restVars>>

UnmarshalCall ==
    /\ rt.stage = "marshalled"
    /\ LET out == Unmarshal(rt.json, rt.v.t) IN
       rt' = [rt EXCEPT !.stage = "unmarshalled", !.back = out.v, !.err = out.err]
    /\ UNCHANGED <<decoderVars, lexerVars, poolVars, restVars>>

NextCodec == MarshalCall \/ UnmarshalCall

\* C3: Unmarshal of what Marshal returned for a value, into a destination of
\* the value's type, succeeds and yields the value.
C3_RoundTrip ==
    rt.stage = "unmarshalled" => (rt.err = "" /\ rt.back = rt.v)

(***************************************************************************)
(* The Buffer pools.  A Buffer is known by its identity, its index in      *)
(* bufs; a sync.Pool is the set of identities it holds.  Garbage           *)
(* collection, which may empty a sync.Pool, happens only before Init.      *)
(***************************************************************************)
PoolClasses == {"tiny", "small", "medium", "large"}

\* The capacity each pool's New makes a Buffer with.
tinyCap == 64
smallCap == 256
mediumCap == 1024
largeCap == 4096

classCap(class) ==
    CASE class = "tiny" -> tinyCap
      [] class = "small" -> smallCap
      [] class = "medium" -> mediumCap
      [] class = "large" -> largeCap

\* The pool getBufferSize draws from for a size hint.
hintClass(sizeHint) ==
    IF sizeHint <= 64 THEN "tiny"
    ELSE IF sizeHint <= 256 THEN "small"
    ELSE IF sizeHint <= 4096 THEN "medium"
    ELSE "large"

\* The pool putBuffer puts a Buffer of a capacity in.
putClass(capacity) ==
    IF capacity <= 64 THEN "tiny"
    ELSE IF capacity <= 256 THEN "small"
    ELSE IF capacity <= 4096 THEN "medium"
    ELSE "large"

\* (x + 4095) &^ 4095
Align4096(x) == ((x + 4095) \div 4096) * 4096

\* A pool that goes on holding the Buffer that Get has handed out.
PoolKeep(pool, id) == pool

\* A pool without the Buffer that Get has handed out.
PoolRemove(pool, id) == pool \ {id}

\* sync.Pool.Get: the pooled Buffer pick, or one from New when pick is 0.
PoolGet(bs, ps, class, pick) ==
    IF pick = 0
    THEN [id |-> Len(bs) + 1, bufs |-> Append(bs, NewBuffer(classCap(class))),
          pools |-> ps, fresh |-> TRUE]
    ELSE [id |-> pick, bufs |-> bs,
          pools |-> [ps EXCEPT ![class] = PoolRemove(@, pick)], fresh |-> FALSE]

\* The tail of getBufferSize: buf.buf = buf.buf[:0]; buf.off = 0.
ResetInline(got) == [got EXCEPT !.bufs[got.id].len = 0, !.bufs[got.id].off = 0]

\* The large branch of getBufferSize, the hint rounded up to a power of two:
\* over 64 KiB a Buffer of its own, page aligned, that no pool has seen;
\* otherwise one of the large pool, its array replaced when it is too small.
getLargeBuffer(bs, ps, rounded, pick) ==
    IF rounded > 65536
    THEN [id |-> Len(bs) + 1, bufs |-> Append(bs, NewBuffer(Align4096(rounded))),
          pools |-> ps, fresh |-> TRUE]
    ELSE LET got == PoolGet(bs, ps, "large", pick) IN
         IF got.bufs[got.id].cap < rounded
         THEN [got EXCEPT !.bufs[got.id] = NewBuffer(rounded)]
         ELSE got

getBufferSize(bs, ps, sizeHint, pick) ==
    ResetInline(IF hintClass(sizeHint) = "large"
                THEN getLargeBuffer(bs, ps, RoundUp32(sizeHint), pick)
                ELSE PoolGet(bs, ps, hintClass(sizeHint), pick))

\* putBuffer: nothing for a capacity over 64 KiB; otherwise Reset and Put.
putBuffer(bs, ps, id) ==
    IF bs[id].cap > 65536 THEN [bufs |-> bs, pools |-> ps, dropped |-> TRUE]
    ELSE [bufs |-> [bs EXCEPT ![id] = Reset(@)],
          pools |-> [ps EXCEPT ![putClass(bs[id].cap)] = @ \cup {id}],
          dropped |-> FALSE]

(***************************************************************************)
(* Goroutines that call Marshal and AppendBuffers                          *)
(***************************************************************************)
Procs == {1, 2}
MaxPairs == 3
MaxWarm == 1
LongLen == 240

\* The byte only goroutine p puts in the strings it marshals.
Letter(p) == IF p = 1 THEN "a" ELSE "b"

\* What goroutine p marshals: a short and a long string of its letter.
MarshalInputs(p) ==
    {StringV([i \in 1..(2 * p - 1) |-> Letter(p)]),
     StringV([i \in 1..LongLen |-> Letter(p)])}

\* The lengths of the byte slices handed to AppendBuffers.
AppendInputs == {<<1500, 500>>, <<3000, 3000>>, <<40000, 40000>>}

RECURSIVE SumLen(_, _)
SumLen(sizes, i) == IF i > Len(sizes) THEN 0 ELSE sizes[i] + SumLen(sizes, i + 1)

RECURSIVE growEach(_, _, _)
\* What the Writes of AppendBuffers do to len and cap: each grows by the
\* length of its slice from an off that no Write moves.
growEach(b, sizes, i) ==
    IF i > Len(sizes) THEN b ELSE growEach(grow(b, sizes[i]), sizes, i + 1)

Idle ==
    [pc |-> "idle", op |-> "none", buf |-> 0, hint |-> 0, val |-> IntV(0),
     sizes |-> <<>>, result |-> <<>>]

\* The Buffers Get may hand out: any pooled one (among equal ones the
\* first), or 0 for New when the pool is empty.
PoolPicks(class) ==
    IF pools[class] = {} THEN {0}
    ELSE {id \in pools[class] :
            \A j \in pools[class] : bufs[j] = bufs[id] => id <= j}

PoolHeld == Cardinality(pools.tiny) + Cardinality(pools.small)
            + Cardinality(pools.medium) + Cardinality(pools.large)

\* WarmupPools has put Buffers of each class; the collector has left w of each.
InitPool ==
    /\ \E w \in 0..MaxWarm :
         /\ bufs = [i \in 1..(4 * w) |->
                      NewBuffer(IF i <= w THEN tinyCap
                                ELSE IF i <= 2 * w THEN smallCap
                                ELSE IF i <= 3 * w THEN mediumCap ELSE largeCap)]
         /\ pools = [tiny |-> 1..w, small |-> (w + 1)..(2 * w),
                     medium |-> (2 * w + 1)..(3 * w), large |-> (3 * w + 1)..(4 * w)]
         /\ stats = [started |-> 0, pairs |-> 0, initial |-> 4 * w,
                     allocs |-> 0, dropped |-> 0]
    /\ procs = [p \in Procs |-> Idle]
    /\ source = <<>> /\ reader = <<>> /\ d = <<>> /\ rv = <<>>
    /\ pc = "off" /\ results = <<>> /\ dests = <<>>
    /\ px = <<>> /\ rt = <<>>
    /\ fieldCache = <<>> /\ callers = <<>> /\ computed = <<>>
    /\ bw = <<>> /\ enc = <<>> /\ um = <<>> /\ ms = <<>>
    /\ tk = <<>> /\ pa = <<>> /\ gobj = <<>>

\* Goroutine p has called getBufferSize(sizeHint) and got the Buffer got.id.
Acquired(p, op, sizeHint, val, sizes, got) ==
    /\ bufs' = got.bufs
    /\ pools' = got.pools
    /\ procs' = [procs EXCEPT ![p] = [pc |-> "write", op |-> op, buf |-> got.id,
                                      hint |-> sizeHint, val |-> val,
                                      sizes |-> sizes, result |-> <<>>]]
    /\ stats' = [stats EXCEPT !.started = @ + 1,
                              !.allocs = IF got.fresh THEN @ + 1 ELSE @]

\* Marshal: buf := getBuffer()
MarshalStart(p) ==
    /\ procs[p].pc = "idle" /\ stats.started < MaxPairs
    /\ \E val \in MarshalInputs(p), pick \in PoolPicks(hintClass(DefaultBufferSize)) :
         Acquired(p, "Marshal", DefaultBufferSize, val, <<>>,
                  getBufferSize(bufs, pools, DefaultBufferSize, pick))
    /\ UNCHANGED <<decoderVars, lexerVars, codecVars, restVars>>

\* AppendBuffers of two or more slices: buf := getBufferSize(totalSize)
AppendStart(p) ==
    /\ procs[p].pc = "idle" /\ stats.started < MaxPairs
    /\ \E sizes \in AppendInputs :
       \E pick \in PoolPicks(hintClass(SumLen(sizes, 1))) :
         Acquired(p, "AppendBuffers", SumLen(sizes, 1), IntV(0), sizes,
                  getBufferSize(bufs, pools, SumLen(sizes, 1), pick))
    /\ UNCHANGED <<decoderVars, lexerVars, codecVars, restVars>>

\* marshalValue(v, buf), or the Writes of AppendBuffers.
WriteBuffer(p) ==
    /\ procs[p].pc = "write"
    /\ bufs' = [bufs EXCEPT ![procs[p].buf] =
                  IF procs[p].op = "Marshal" THEN marshalValue(procs[p].val, @)
                  ELSE growEach(@, procs[p].sizes, 1)]
    /\ procs' = [procs EXCEPT ![p].pc = "copy"]
    /\ UNCHANGED <<pools, stats>>
    /\ UNCHANGED <<decoderVars, lexerVars, codecVars, restVars>>

\* result := make([]byte, buf.off); copy(result, buf.buf[:buf.off])
CopyResult(p) ==
    /\ procs[p].pc = "copy"
    /\ procs' = [procs EXCEPT ![p].pc = "put",
                              ![p].result = Prefix(bufs[procs[p].buf], bufs[procs[p].buf].off)]
    /\ UNCHANGED <<bufs, pools, stats>>
    /\ UNCHANGED <<decoderVars, lexerVars, codecVars, restVars>>

\* The deferred putBuffer(buf), as the call returns.
Release(p) ==
    /\ procs[p].pc = "put"
    /\ LET put == putBuffer(bufs, pools, procs[p].buf) IN
         /\ bufs' = put.bufs
         /\ pools' = put.pools
         /\ stats' = [stats EXCEPT !.pairs = @ + 1,
                                   !.dropped = IF put.dropped THEN @ + 1 ELSE @]
    /\ procs' = [procs EXCEPT ![p] = Idle]
    /\ UNCHANGED <<decoderVars, lexerVars, codecVars, restVars>>

NextPool ==
    \E p \in Procs :
        \/ MarshalStart(p)
        \/ AppendStart(p)
        \/ WriteBuffer(p)
        \/ CopyResult(p)
        \/ Release(p)

(***************************************************************************)
(* Claims about the pools                                                  *)
(***************************************************************************)
\* The bytes goroutine p writes when it marshals a string of its letter.
OwnBytes(p) == {"\"", Letter(p)}

\* C7: no Buffer is held by two goroutines at once or held while a pool has
\* it, and what a Marshal call has copied out for its caller holds only
\* bytes that this call wrote.
C7_MarshalOwnsItsBuffer ==
    /\ \A p \in Procs : \A q \in Procs :
          (p # q /\ procs[p].buf # 0) => procs[p].buf # procs[q].buf
    /\ \A p \in Procs : \A class \in PoolClasses :
          procs[p].buf # 0 => procs[p].buf \notin pools[class]
    /\ \A p \in Procs :
          (procs[p].op = "Marshal" /\ procs[p].pc = "put") =>
              \A i \in 1..Len(procs[p].result) : procs[p].result[i] \in OwnBytes(p)

\* Goroutine 1 returns its own text from a Buffer that still holds a byte of
\* an earlier call of goroutine 2, which is in a call of its own.
C7_Witness ==
    /\ procs[1].op = "Marshal" /\ procs[1].pc = "put"
    /\ procs[1].result = <<"\"", "a", "\"">>
    /\ \E i \in 1..Len(bufs[procs[1].buf].mem) : bufs[procs[1].buf].mem[i] = Letter(2)
    /\ procs[2].op = "Marshal" /\ procs[2].buf # 0

\* C8: the Buffer getBufferSize has just returned has a capacity of at least
\* the size hint, and offset and length 0.
C8_AcquireGivesCapacity ==
    \A p \in Procs :
        procs[p].pc = "write" =>
            /\ bufs[procs[p].buf].cap >= procs[p].hint
            /\ bufs[procs[p].buf].off = 0
            /\ bufs[procs[p].buf].len = 0

\* C9: putBuffer of a Buffer with a capacity over 64 KiB changes no pool and
\* no Buffer; of any other it leaves the Buffer with length and offset 0 and
\* the capacity it had, added to the pool that serves size hints of that
\* capacity, every other pool as it was.
C9_PutBufferEffect ==
    [][\A p \in Procs :
          (procs[p].pc = "put" /\ procs'[p].pc = "idle") =>
              IF bufs[procs[p].buf].cap > 65536
              THEN pools' = pools /\ bufs' = bufs
              ELSE /\ bufs'[procs[p].buf].len = 0
                   /\ bufs'[procs[p].buf].off = 0
                   /\ bufs'[procs[p].buf].cap = bufs[procs[p].buf].cap
                   /\ pools' = [pools EXCEPT ![hintClass(bufs[procs[p].buf].cap)] =
                                               @ \cup {procs[p].buf}]]_vars

\* A Buffer that Marshal grew to 1024 bytes lies reset in the medium pool, and
\* a putBuffer of a Buffer over 64 KiB has been dropped.
C9_Witness ==
    /\ \E id \in pools.medium :
          /\ bufs[id].cap = 1024 /\ Len(bufs[id].mem) > 1
          /\ bufs[id].len = 0 /\ bufs[id].off = 0
    /\ stats.dropped >= 1

\* C10: whenever every acquired Buffer has been released, the pools hold no
\* more Buffers than they held at the start plus one for each goroutine,
\* however many acquire/release pairs have run.
C10_PoolHeldIndependentOfN ==
    (\A p \in Procs : procs[p].pc = "idle") =>
        PoolHeld <= stats.initial + Cardinality(Procs)

(***************************************************************************)
(* Goroutines that call getCachedFields.  A layout is the slice one run of *)
(* computeStructFields made: its fields, and run, the number of that run   *)
(* among the runs for the type, which tells two slices with the same       *)
(* fields apart.                                                           *)
(***************************************************************************)
CacheProcs == {1, 2, 3}

MaxLookups == 2

NoLayout == [fields |-> <<>>, run |-> 0]

CallerIdle == [pc |-> "idle", t |-> "", fields |-> NoLayout, calls |-> 0]

InitCache ==
    /\ fieldCache = [t \in StructTypes |-> NoLayout]
    /\ callers = [g \in CacheProcs |-> CallerIdle]
    /\ computed = [t \in StructTypes |-> 0]
    /\ source = <<>> /\ reader = <<>> /\ d = <<>> /\ rv = <<>>
    /\ pc = "off" /\ results = <<>> /\ dests = <<>>
    /\ px = <<>> /\ rt = <<>>
    /\ bufs = <<>> /\ pools = <<>> /\ procs = <<>> /\ stats = <<>>
    /\ bw = <<>> /\ enc = <<>> /\ um = <<>> /\ ms = <<>>
    /\ tk = <<>> /\ pa = <<>> /\ gobj = <<>>

\* Goroutine g calls getCachedFields(t).
CacheCall(g, t) ==
    /\ callers[g].pc = "idle"
    /\ callers[g].calls < MaxLookups
    /\ callers' = [callers EXCEPT ![g] = [pc |-> "load", t |-> t, fields |-> NoLayout,
                                          calls |-> callers[g].calls + 1]]
    /\ UNCHANGED <<fieldCache, computed>>
    /\ UNCHANGED <<decoderVars, lexerVars, codecVars, poolVars, tokenVars, parserVars, objectVars>>
    /\ UNCHANGED <<bufferVars, encoderVars, unmarshalVars, structVars>>

\* fieldCache.Load(key): on a hit getCachedFields returns the stored layout.
CacheLoad(g) ==
    /\ callers[g].pc = "load"
    /\ callers' = [callers EXCEPT ![g] =
                     IF fieldCache[callers[g].t].run # 0
                     THEN [@ EXCEPT !.pc = "idle", !.fields = fieldCache[callers[g].t]]
                     ELSE [@ EXCEPT !.pc = "compute"]]
    /\ UNCHANGED <<fieldCache, computed>>
    /\ UNCHANGED <<decoderVars, lexerVars, codecVars, poolVars, tokenVars, parserVars, objectVars>>
    /\ UNCHANGED <<bufferVars, encoderVars, unmarshalVars, structVars>>

\* fields := computeStructFields(t)
CacheCompute(g) ==
    /\ callers[g].pc = "compute"
    /\ computed' = [computed EXCEPT ![callers[g].t] = @ + 1]
    /\ callers' = [callers EXCEPT ![g] =
                     [@ EXCEPT !.pc = "store",
                               !.fields = [fields |-> computeStructFields(callers[g].t),
                                           run |-> computed[callers[g].t] + 1]]]
    /\ UNCHANGED fieldCache
    /\ UNCHANGED <<decoderVars, lexerVars, codecVars, poolVars, tokenVars, parserVars, objectVars>>
    /\ UNCHANGED <<bufferVars, encoderVars, unmarshalVars, structVars>>

\* fieldCache.Store(key, fields); return fields
CacheStore(g) ==
    /\ callers[g].pc = "store"
    /\ fieldCache' = [fieldCache EXCEPT ![callers[g].t] = callers[g].fields]
    /\ callers' = [callers EXCEPT ![g].pc = "idle"]
    /\ UNCHANGED computed
    /\ UNCHANGED <<decoderVars, lexerVars, codecVars, poolVars, tokenVars, parserVars, objectVars>>
    /\ UNCHANGED <<bufferVars, encoderVars, unmarshalVars, structVars>>

NextCache ==
    \E g \in CacheProcs :
        \/ \E t \in StructTypes : CacheCall(g, t)
        \/ CacheLoad(g)
        \/ CacheCompute(g)
        \/ CacheStore(g)

\* C11: computeStructFields runs at most once for a struct type, and every
\* getCachedFields call that has returned got the one layout made by that run,
\* also when the first calls for the type run concurrently.
C11_LayoutComputedOnce ==
    /\ \A t \in StructTypes : computed[t] <= 1
    /\ \A g \in CacheProcs :
           (callers[g].pc = "idle" /\ callers[g].calls > 0) =>
               /\ callers[g].fields.run = 1
               /\ callers[g].fields.fields = computeStructFields(callers[g].t)

(***************************************************************************)
(* The marshaller's direct writes into a Buffer, and one Buffer under      *)
(* sequences of its methods and of those writes                            *)
(***************************************************************************)
\* len(time.RFC3339)
lenRFC3339 == 25

\* x.AppendFormat(nil, time.RFC3339) of a time in UTC and of one in a zone
\* seven hours east.
TimeTexts ==
    [utc |-> <<"2", "0", "2", "4", "-", "0", "1", "-", "0", "2", "T",
               "0", "3", ":", "0", "4", ":", "0", "5", "Z">>,
     east |-> <<"2", "0", "2", "4", "-", "0", "1", "-", "0", "2", "T",
                "0", "3", ":", "0", "4", ":", "0", "5", "+", "0", "7", ":", "0", "0">>]

\* Writes src into the backing array from off on, whatever len(buf.buf) is
\* (a write through a slice that reaches up to the capacity).
storeAtOff(b, src) ==
    [b EXCEPT !.mem = [i \in 1..Max(Len(b.mem), b.off + Len(src)) |->
                          IF i > b.off /\ i <= b.off + Len(src)
                          THEN src[i - b.off] ELSE MemAt(b, i)]]

\* The time.Time case of marshalValue between its two WriteByte calls: grow
\* when fewer than len(time.RFC3339) bytes are free, AppendFormat into
\* buf.buf[buf.off:buf.off], buf.off += len(b).
appendTime(b, text) ==
    LET g == IF b.cap - b.off < lenRFC3339 THEN grow(b, lenRFC3339) ELSE b
    IN  [storeAtOff(g, text) EXCEPT !.off = g.off + Len(text)]

\* The value of a byte.
Ord(c) == CASE c = "a" -> 97 [] c = "b" -> 98 [] c = "1" -> 49 [] OTHER -> 0

base64Alphabet ==
    <<"A", "B", "C", "D", "E", "F", "G", "H", "I", "J", "K", "L", "M",
      "N", "O", "P", "Q", "R", "S", "T", "U", "V", "W", "X", "Y", "Z",
      "a", "b", "c", "d", "e", "f", "g", "h", "i", "j", "k", "l", "m",
      "n", "o", "p", "q", "r", "s", "t", "u", "v", "w", "x", "y", "z",
      "0", "1", "2", "3", "4", "5", "6", "7", "8", "9", "+", "/">>

\* base64.StdEncoding.EncodedLen(n)
EncodedLen(n) == ((n + 2) \div 3) * 4

RECURSIVE base64Encode(_)
\* base64.StdEncoding.Encode: four characters for every three bytes, the
\* last group padded with '='.
base64Encode(x) ==
    IF Len(x) = 0 THEN <<>>
    ELSE LET val == Ord(x[1]) * 65536
                    + (IF Len(x) >= 2 THEN Ord(x[2]) * 256 ELSE 0)
                    + (IF Len(x) >= 3 THEN Ord(x[3]) ELSE 0)
         IN  <<base64Alphabet[(val \div 262144) + 1],
               base64Alphabet[((val \div 4096) % 64) + 1],
               IF Len(x) >= 2 THEN base64Alphabet[((val \div 64) % 64) + 1] ELSE "=",
               IF Len(x) >= 3 THEN base64Alphabet[(val % 64) + 1] ELSE "=">>
             \o base64Encode(SubSeq(x, Min(4, Len(x) + 1), Len(x)))

\* marshalBytes between its two WriteByte calls: grow when the encoding does
\* not fit the capacity, Encode into buf.buf[buf.off : buf.off+encodedLen],
\* buf.off += encodedLen.
marshalBytesEncode(b, x) ==
    LET g == IF EncodedLen(Len(x)) + b.off > b.cap THEN grow(b, EncodedLen(Len(x))) ELSE b
    IN  IF EncodedLen(Len(x)) = 0 THEN b
        ELSE [storeAtOff(g, base64Encode(x)) EXCEPT !.off = g.off + EncodedLen(Len(x))]

\* Buffer.Seek
Seek(b, offset) == IF offset >= 0 /\ offset <= b.len THEN [b EXCEPT !.off = offset] ELSE b

MaxOps == 3

LongText == [i \in 1..70 |-> "a"]

BufTexts == {<<"a">>, <<"a", "\"">>, LongText}

\* What one step does to the Buffer: a Buffer method or a direct write of the
\* marshaller.  written is what Write, WriteByte and WriteString have been
\* given since the Buffer was last reset, plain whether nothing but these
\* three has been called since.
BufOp(name, arg, after, text, keepsPlain) ==
    [name |-> name, arg |-> arg, after |-> after, text |-> text, keepsPlain |-> keepsPlain]

BufOps(b) ==
    {BufOp("Write", p, Write(b, p), p, TRUE) : p \in BufTexts}
    \cup {BufOp("WriteByte", <<c>>, WriteByte(b, c), <<c>>, TRUE) : c \in {"a", ","}}
    \cup {BufOp("WriteString", s, WriteString(b, s), s, TRUE) :
            s \in {t \in BufTexts : b.off <= b.len \/ b.off + Len(t) > b.cap}}
    \cup {BufOp("grow", <<>>, grow(b, n), <<>>, FALSE) : n \in {1, 100}}
    \cup {BufOp("Seek", <<>>, Seek(b, o), <<>>, FALSE) : o \in {0, 1, b.len + 1}}
    \cup {BufOp("writeEscapedStringString", s, writeEscapedStringString(b, s), <<>>, FALSE) :
            s \in BufTexts}
    \cup {BufOp("appendTime", t, appendTime(b, t), <<>>, FALSE) :
            t \in {TimeTexts.utc, TimeTexts.east}}
    \cup {BufOp("marshalBytes", x, marshalBytesEncode(b, x), <<>>, FALSE) :
            x \in {<<"a">>, <<"a", "b", "1", "a">>}}

InitBuffer ==
    /\ bw \in {[buf |-> NewBuffer(c), written |-> <<>>, plain |-> TRUE, ops |-> 0,
                last |-> "New"] : c \in {tinyCap, smallCap}}
    /\ source = <<>> /\ reader = <<>> /\ d = <<>> /\ rv = <<>>
    /\ pc = "off" /\ results = <<>> /\ dests = <<>>
    /\ px = <<>> /\ rt = <<>>
    /\ bufs = <<>> /\ pools = <<>> /\ procs = <<>> /\ stats = <<>>
    /\ fieldCache = <<>> /\ callers = <<>> /\ computed = <<>>
    /\ enc = <<>> /\ um = <<>> /\ ms = <<>>
    /\ tk = <<>> /\ pa = <<>> /\ gobj = <<>>

\* One Buffer method other than Reset, or one direct write.  WriteString on
\* a Buffer whose off is beyond len(buf.buf) slices out of range and panics
\* unless it grows first; that call is left out.
BufferStep ==
    /\ bw.ops < MaxOps
    /\ \E op \in BufOps(bw.buf) :
         bw' = [buf |-> op.after, written |-> bw.written \o op.text,
                plain |-> bw.plain /\ op.keepsPlain, ops |-> bw.ops + 1,
                last |-> op.name]
    /\ UNCHANGED <<decoderVars, lexerVars, codecVars, poolVars, tokenVars, parserVars, objectVars>>
    /\ UNCHANGED <<cacheVars, encoderVars, unmarshalVars, structVars>>

\* Buffer.Reset
BufferReset ==
    /\ bw.ops < MaxOps
    /\ bw' = [buf |-> Reset(bw.buf), written |-> <<>>, plain |-> TRUE,
              ops |-> bw.ops + 1, last |-> "Reset"]
    /\ UNCHANGED <<decoderVars, lexerVars, codecVars, poolVars, tokenVars, parserVars, objectVars>>
    /\ UNCHANGED <<cacheVars, encoderVars, unmarshalVars, structVars>>

NextBuffer == BufferStep \/ BufferReset

\* C12: after every Buffer method and after every direct write of the
\* marshaller, the Buffer has offset <= length <= capacity.
C12_OffsetLengthCapacity ==
    bw.buf.off <= bw.buf.len /\ bw.buf.len <= bw.buf.cap

\* C13: after Write, WriteByte and WriteString calls on a reset Buffer the
\* offset is the number of bytes written and Bytes() is what was written, in
\* call order.
C13_BytesIsWhatWasWritten ==
    (bw.plain /\ bw.ops > 0) =>
        /\ bw.buf.off = Len(bw.written)
        /\ Bytes(bw.buf) = bw.written

(***************************************************************************)
(* The Encoder over a sink that keeps every byte written to it             *)
(***************************************************************************)
MaxEncodes == 3

jsonNewline == <<"\n">>

\* NewEncoder asks getBufferSize for 2048 bytes.
EncoderBufferSize == 2048

EncValues ==
    {BoolV(TRUE), IntV(7), StringV(<<"a">>), StringV(<<"a", "\"">>),
     SliceV("[]int", <<>>), SliceV("[]string", <<StringV(<<"b">>)>>),
     PersonV(<<"a">>, 28)}

\* NewEncoder: the Buffer is one the medium pool hands out, as its New makes
\* it or as a caller of putBuffer left it.
InitEncoder ==
    /\ enc \in {[buf |-> b, sink |-> <<>>, values |-> <<>>] :
                  b \in {NewBuffer(classCap(hintClass(EncoderBufferSize))),
                         Reset(Write(NewBuffer(classCap(hintClass(EncoderBufferSize))),
                                     <<"o", "l", "d">>))}}
    /\ source = <<>> /\ reader = <<>> /\ d = <<>> /\ rv = <<>>
    /\ pc = "off" /\ results = <<>> /\ dests = <<>>
    /\ px = <<>> /\ rt = <<>>
    /\ bufs = <<>> /\ pools = <<>> /\ procs = <<>> /\ stats = <<>>
    /\ fieldCache = <<>> /\ callers = <<>> /\ computed = <<>>
    /\ bw = <<>> /\ um = <<>> /\ ms = <<>>
    /\ tk = <<>> /\ pa = <<>> /\ gobj = <<>>

\* Encoder.Encode(v): Reset, marshalValue, then e.buf.Bytes() and a newline
\* go to the sink.  The sink takes every write and marshalValue fails for no
\* value of EncValues, so the call succeeds.
Encode(v) ==
    /\ Len(enc.values) < MaxEncodes
    /\ LET buf == marshalValue(v, Reset(enc.buf)) IN
       enc' = [buf |-> buf, sink |-> enc.sink \o Bytes(buf) \o jsonNewline,
               values |-> Append(enc.values, v)]
    /\ UNCHANGED <<decoderVars, lexerVars, codecVars, poolVars, tokenVars, parserVars, objectVars>>
    /\ UNCHANGED <<cacheVars, bufferVars, unmarshalVars, structVars>>

NextEncoder == \E v \in EncValues : Encode(v)

RECURSIVE Lines(_, _)
\* Marshal(v) and a newline for each of the first n values of vals, in order.
Lines(vals, n) ==
    IF n = 0 THEN <<>> ELSE Lines(vals, n - 1) \o Marshal(vals[n]) \o <<"\n">>

\* C14: after k successful Encode calls the sink holds, in call order, what
\* Marshal returns for each value followed by one newline, and nothing else.
C14_SinkHoldsMarshalLines ==
    enc.sink = Lines(enc.values, Len(enc.values))

(***************************************************************************)
(* Unmarshal of a JSON text into a destination that holds a value          *)
(***************************************************************************)
\* Texts that begin with n, t or f and do not spell null, true or false,
\* some of them cut short.
MisspeltTexts ==
    {<<"n", "o", "p", "e">>, <<"n", "u">>, <<" ", "n", "u", "l", "k">>,
     <<"t", "r", "u", "x">>, <<"t">>, <<"f", "a", "l", "s", "y">>,
     <<"f", "a", "l", "s">>}

\* The member "age":n of an object.
AgePair(n) == <<"\"", "a", "g", "e", "\"", ":", n>>

\* Objects whose second pair has no comma before it, or whose first pair has
\* one.
BadCommaTexts ==
    {<<"{">> \o AgePair("1") \o <<" ">> \o AgePair("2") \o <<"}">>,
     <<"{">> \o AgePair("1") \o AgePair("2") \o <<"}">>,
     <<"{", ",">> \o AgePair("3") \o <<"}">>}

UmTexts ==
    {jsonNull, <<" ">> \o jsonNull, jsonNull \o <<"\n">>, jsonTrue, jsonFalse,
     <<"7">>, <<"-", "1", "2">>, <<"\"", "a", "\"">>, <<"[", "]">>,
     <<"[", "1", ",", "2", "]">>, <<"{", "}">>,
     <<"{", "\"", "a", "g", "e", "\"", ":", "3", "}">>,
     <<"{">> \o AgePair("1") \o <<",">> \o AgePair("2") \o <<"}">>}
    \cup MisspeltTexts \cup BadCommaTexts

\* The texts that hold null and whitespace only.
NullTexts == {jsonNull, <<" ">> \o jsonNull, jsonNull \o <<"\n">>}

UmDests ==
    {NilPtrV, PtrV(5), IntV(0), IntV(3), BoolV(TRUE), StringV(<<"z">>),
     SliceV("[]int", <<IntV(4)>>), NilSliceV("[]string"), PersonV(<<"b">>, 9),
     NilInterfaceV, InterfaceV(StringV(<<"z">>))}

InitUnmarshal ==
    /\ um \in {[data |-> text, dest |-> dest, stage |-> "call",
                err |-> "", v |-> dest] : text \in UmTexts, dest \in UmDests}
    /\ source = <<>> /\ reader = <<>> /\ d = <<>> /\ rv = <<>>
    /\ pc = "off" /\ results = <<>> /\ dests = <<>>
    /\ px = <<>> /\ rt = <<>>
    /\ bufs = <<>> /\ pools = <<>> /\ procs = <<>> /\ stats = <<>>
    /\ fieldCache = <<>> /\ callers = <<>> /\ computed = <<>>
    /\ bw = <<>> /\ enc = <<>> /\ ms = <<>>
    /\ tk = <<>> /\ pa = <<>> /\ gobj = <<>>

\* Unmarshal(data, &dest): unmarshalValue over a new Parser and the
\* destination.
UnmarshalInto ==
    /\ um.stage = "call"
    /\ LET out == unmarshalValue(um.data, 0, um.dest) IN
       um' = [um EXCEPT !.stage = "returned", !.err = out.err, !.v = out.v]
    /\ UNCHANGED <<decoderVars, lexerVars, codecVars, poolVars, tokenVars, parserVars, objectVars>>
    /\ UNCHANGED <<cacheVars, bufferVars, encoderVars, structVars>>

NextUnmarshal == UnmarshalInto

\* C16: Unmarshal of null succeeds on a pointer destination and leaves it
\* nil, and returns a type error on an int destination.
C16_NullIntoPointerAndInt ==
    (um.stage = "returned" /\ um.data \in NullTexts) =>
        /\ Kind(um.dest.t) = "Ptr" => (um.err = "" /\ um.v = NilPtrV)
        /\ Kind(um.dest.t) = "Int" => um.err = "UnmarshalTypeError: null"

\* null has been unmarshalled into a pointer that pointed to 5.
C16_Witness ==
    /\ um.stage = "returned"
    /\ um.data = <<" ">> \o jsonNull
    /\ um.dest = PtrV(5)
    /\ um.err = ""
    /\ um.v = NilPtrV

\* The word unmarshalValue requires at a cursor where byte c stands.
LiteralWord(c) == IF c = "n" THEN jsonNull ELSE IF c = "t" THEN jsonTrue ELSE jsonFalse

\* The text of the Unmarshal call begins, after whitespace, with n, t or f
\* and does not go on to spell null, true or false there.
Misspelt(data) ==
    LET p == skipWhitespace(data, 0) IN
    /\ p < Len(data)
    /\ data[p + 1] \in {"n", "t", "f"}
    /\ ~matchLiteral(data, p, LiteralWord(data[p + 1])).ok

\* C25: Unmarshal of a text that begins with n, t or f and does not spell
\* null, true or false at that place, or ends before the word is complete,
\* fails and leaves the destination as it was.
C25_LiteralsSpeltOut ==
    (um.stage = "returned" /\ Misspelt(um.data)) => (um.err # "" /\ um.v = um.dest)

\* C26: Unmarshal into a struct of an object whose second pair is not
\* preceded by a comma, or whose first pair is preceded by one, fails.
C26_PairsNeedCommas ==
    (um.stage = "returned" /\ um.data \in BadCommaTexts /\ Kind(um.dest.t) = "Struct")
        => um.err # ""

(***************************************************************************)
(* Marshal of struct values                                                *)
(***************************************************************************)
StructValues ==
    {ItemV(a, b, c, dd, e, f) :
        a \in {0, 1}, b \in {<<>>, <<"x">>}, c \in {<<>>, <<"s">>},
        dd \in {<<>>, <<"h">>}, e \in BOOLEAN, f \in {<<>>, <<"y">>}}
    \cup {CountV(n, m) : n \in {0, 5, -3}, m \in {0, 6}}
    \cup {PersonV(s, n) : s \in {<<>>, <<"a">>}, n \in {0, 28}}

InitStruct ==
    /\ ms \in {[v |-> v, stage |-> "value", json |-> <<>>] : v \in StructValues}
    /\ source = <<>> /\ reader = <<>> /\ d = <<>> /\ rv = <<>>
    /\ pc = "off" /\ results = <<>> /\ dests = <<>>
    /\ px = <<>> /\ rt = <<>>
    /\ bufs = <<>> /\ pools = <<>> /\ procs = <<>> /\ stats = <<>>
    /\ fieldCache = <<>> /\ callers = <<>> /\ computed = <<>>
    /\ bw = <<>> /\ enc = <<>> /\ um = <<>>
    /\ tk = <<>> /\ pa = <<>> /\ gobj = <<>>

\* Marshal(v) for a struct value v.
MarshalStructCall ==
    /\ ms.stage = "value"
    /\ ms' = [ms EXCEPT !.stage = "marshalled", !.json = Marshal(ms.v)]
    /\ UNCHANGED <<decoderVars, lexerVars, codecVars, poolVars, tokenVars, parserVars, objectVars>>
    /\ UNCHANGED <<cacheVars, bufferVars, encoderVars, unmarshalVars>>

NextStruct == MarshalStructCall

\* "name":value
Pair(name, value) == <<"\"">> \o name \o <<"\"", ":">> \o value

\* The pairs a record is to be emitted with, in declaration order: Item
\* leaves out A, B and E when they are empty, c because it is not exported
\* and D because of its tag; the strings here need no escaping.
ExpectedPairs(v) ==
    CASE v.t = "Person" ->
            <<Pair(<<"n", "a", "m", "e">>, Quoted(v.elems[1].s)),
              Pair(<<"a", "g", "e">>, AppendInt(v.elems[2].n))>>
      [] v.t = "Item" ->
            (IF v.elems[1].n # 0 THEN <<Pair(<<"a">>, AppendInt(v.elems[1].n))>> ELSE <<>>)
            \o (IF v.elems[2].s # <<>> THEN <<Pair(<<"b">>, Quoted(v.elems[2].s))>> ELSE <<>>)
            \o (IF v.elems[5].b THEN <<Pair(<<"E">>, jsonTrue)>> ELSE <<>>)
            \o <<Pair(<<"F">>, Quoted(v.elems[6].s))>>

RECURSIVE JoinPairs(_, _)
\* The first n pairs with one comma between consecutive pairs.
JoinPairs(pairs, n) ==
    IF n = 0 THEN <<>>
    ELSE IF n = 1 THEN pairs[1]
    ELSE JoinPairs(pairs, n - 1) \o <<",">> \o pairs[n]

\* C17: Marshal of a record is '{', the pairs of its exported fields in
\* declaration order without the omitempty fields that are empty, one comma
\* between consecutive pairs, and '}'.
C17_RecordPairsAndCommas ==
    (ms.stage = "marshalled" /\ ms.v.t \in {"Person", "Item"}) =>
        ms.json = <<"{">> \o JoinPairs(ExpectedPairs(ms.v), Len(ExpectedPairs(ms.v)))
                  \o <<"}">>

\* part occurs in text as a run of consecutive bytes.
Contains(text, part) ==
    \E i \in 0..(Len(text) - Len(part)) : SubSeq(text, i + 1, i + Len(part)) = part

\* C19: Marshal of a Count, whose int field N has the string option, emits
\* the value of N between double quotes.
C19_StringOptionQuotes ==
    (ms.stage = "marshalled" /\ ms.v.t = "Count") =>
        Contains(ms.json, <<":", "\"">> \o AppendInt(ms.v.elems[1].n) \o <<"\"">>)

(***************************************************************************)
(* The token-buffer pool.  tokenBufPool holds pointers to slice variables; *)
(* the ones put into it are the addresses of Decoders' tokenBuf fields, so *)
(* a pooled pointer is known by the Decoder whose field it points at.  A   *)
(* backing array is known by the Decoder whose NewDecoder or readValue had *)
(* it allocated by the pool's New.  readValue is split where it asks the   *)
(* pool and where it returns; Decoders run in goroutines of their own.     *)
(***************************************************************************)
TokDecoders == {1, 2, 3}

\* The nil slice.
NilArr == 0

\* The array the pool's New makes for NewDecoder of i, and the one it makes
\* for a readValue of i (garbage once that readValue has returned).
OwnArr(i) == i

TmpArr(i) == Cardinality(TokDecoders) + i

\* tokenBufPool.Get(): one of the pointers held, or, with g = 0, a pointer
\* to a new slice variable from New.  sync.Pool may do either.
TokGets == tk.pool \cup {0}

\* The slice *getTokenBuf() that a caller with the new array fresh gets.
TokDeref(g, fresh) == IF g = 0 THEN fresh ELSE tk.arr[g]

TokLive(i) == tk.status[i] \in {"idle", "reading"}

InitToken ==
    /\ tk = [status |-> [i \in TokDecoders |-> "none"],
             arr |-> [i \in TokDecoders |-> NilArr],
             old |-> [i \in TokDecoders |-> NilArr],
             pool |-> {}]
    /\ source = <<>> /\ reader = <<>> /\ d = <<>> /\ rv = <<>>
    /\ pc = "off" /\ results = <<>> /\ dests = <<>>
    /\ px = <<>> /\ rt = <<>>
    /\ bufs = <<>> /\ pools = <<>> /\ procs = <<>> /\ stats = <<>>
    /\ fieldCache = <<>> /\ callers = <<>> /\ computed = <<>>
    /\ bw = <<>> /\ enc = <<>> /\ um = <<>> /\ ms = <<>>
    /\ pa = <<>> /\ gobj = <<>>

\* NewDecoder: tokenBuf: *getTokenBuf().  The slice is copied into the field;
\* the pointer the pool gave is dropped.
TokNewDecoder(i, g) ==
    /\ tk.status[i] = "none"
    /\ g \in TokGets
    /\ tk' = [tk EXCEPT !.status[i] = "idle",
                        !.arr[i] = TokDeref(g, OwnArr(i)),
                        !.pool = tk.pool \ {g}]
    /\ UNCHANGED <<decoderVars, lexerVars, codecVars, poolVars>>
    /\ UNCHANGED <<cacheVars, bufferVars, encoderVars, unmarshalVars, structVars>>
    /\ UNCHANGED <<parserVars, objectVars>>

\* readValue: oldBuf := d.tokenBuf; d.tokenBuf = *getTokenBuf().
TokReadValueEnter(i, g) ==
    /\ tk.status[i] = "idle"
    /\ g \in TokGets
    /\ tk' = [tk EXCEPT !.status[i] = "reading",
                        !.old[i] = tk.arr[i],
                        !.arr[i] = TokDeref(g, TmpArr(i)),
                        !.pool = tk.pool \ {g}]
    /\ UNCHANGED <<decoderVars, lexerVars, codecVars, poolVars>>
    /\ UNCHANGED <<cacheVars, bufferVars, encoderVars, unmarshalVars, structVars>>
    /\ UNCHANGED <<parserVars, objectVars>>

\* readValue returns, with a value or an error: d.tokenBuf = oldBuf, and the
\* deferred function finds &d.tokenBuf != &oldBuf, the addresses of two
\* variables, and calls putTokenBuf(&d.tokenBuf).
TokReadValueReturn(i) ==
    /\ tk.status[i] = "reading"
    /\ tk' = [tk EXCEPT !.status[i] = "idle",
                        !.arr[i] = tk.old[i],
                        !.old[i] = NilArr,
                        !.pool = tk.pool \cup {i}]
    /\ UNCHANGED <<decoderVars, lexerVars, codecVars, poolVars>>
    /\ UNCHANGED <<cacheVars, bufferVars, encoderVars, unmarshalVars, structVars>>
    /\ UNCHANGED <<parserVars, objectVars>>

\* Decoder.Close: putTokenBuf(&d.tokenBuf); d.tokenBuf = nil.
TokClose(i) ==
    /\ tk.status[i] = "idle"
    /\ tk' = [tk EXCEPT !.status[i] = "closed",
                        !.arr[i] = NilArr,
                        !.pool = tk.pool \cup {i}]
    /\ UNCHANGED <<decoderVars, lexerVars, codecVars, poolVars>>
    /\ UNCHANGED <<cacheVars, bufferVars, encoderVars, unmarshalVars, structVars>>
    /\ UNCHANGED <<parserVars, objectVars>>

NextToken ==
    \E i \in TokDecoders :
        \/ \E g \in TokDecoders \cup {0} : TokNewDecoder(i, g)
        \/ \E g \in TokDecoders \cup {0} : TokReadValueEnter(i, g)
        \/ TokReadValueReturn(i)
        \/ TokClose(i)

\* C24: no token buffer is held in the pool while a live Decoder refers to
\* it, and no two live Decoders have token buffers with one backing array.
C24_TokenBuffersNotShared ==
    /\ \A i \in TokDecoders : TokLive(i) => i \notin tk.pool
    /\ \A i \in TokDecoders : \A c \in tk.pool :
           (TokLive(i) /\ c # i /\ tk.arr[i] # NilArr) => tk.arr[c] # tk.arr[i]
    /\ \A i \in TokDecoders : \A j \in TokDecoders :
           (TokLive(i) /\ TokLive(j) /\ i # j /\ tk.arr[i] # NilArr)
               => tk.arr[i] # tk.arr[j]

(***************************************************************************)
(* One Parser under a sequence of its primitives.  A primitive that only   *)
(* moves the cursor forward is one step; ExtractString, which assigns the  *)
(* cursor a saved value, is a step for each assignment.                    *)
(***************************************************************************)
\* The most primitives called in one parse, and the longest text made of
\* every combination of the bytes of numbers.
MaxPrims == 2

MaxNumLen == 4

NumAlphabet == {"0", "1", "-", ".", "e"}

NumTexts == UNION {[1..n -> NumAlphabet] : n \in 1..MaxNumLen}

\* Numbers with the other exponent forms, strings (one ending after a
\* backslash, one after its first byte), literals whole and cut short.
OtherTexts ==
    {<<"1", "E", "+", "1", "0">>, <<"-", "0", ".", "5", "e", "-", "1">>,
     <<"1", "e", "+">>, <<"0", "1", "2">>,
     <<"\"", "a", "\"">>, <<"\"", "a", "\\", "\"", "b", "\"", " ">>,
     <<"\"", "a", "\\">>, <<"\"", "a">>, <<" ", "\"", "\"">>,
     <<"n", "u", "l", "l">>, <<"n", "u">>, <<" ", "t", "r", "u", "e">>,
     <<"f", "a", "l", "s">>, <<"[", "1", ",", "\"", "]", "\"", "]">>,
     <<"{", "\"", "a", "\"", ":", "1", "}">>, <<>>}

ParserTexts == NumTexts \cup OtherTexts

PaLiterals == {jsonNull, jsonTrue, jsonFalse}

\* NewParser(data)
NewParser(data) ==
    [data |-> data, pos |-> 0, calls |-> 0, call |-> "", st |-> "ready",
     start |-> 0, ok |-> FALSE, value |-> <<>>, panicked |-> FALSE]

InitParser ==
    /\ pa \in {NewParser(data) : data \in ParserTexts}
    /\ source = <<>> /\ reader = <<>> /\ d = <<>> /\ rv = <<>>
    /\ pc = "off" /\ results = <<>> /\ dests = <<>>
    /\ px = <<>> /\ rt = <<>>
    /\ bufs = <<>> /\ pools = <<>> /\ procs = <<>> /\ stats = <<>>
    /\ fieldCache = <<>> /\ callers = <<>> /\ computed = <<>>
    /\ bw = <<>> /\ enc = <<>> /\ um = <<>> /\ ms = <<>>
    /\ tk = <<>> /\ gobj = <<>>

\* The next primitive can be called.
PaReady == pa.st = "ready" /\ ~pa.panicked /\ pa.calls < MaxPrims

\* A primitive called at pa.pos has returned with the cursor at pos.
PaReturn(call, pos, ok, value) ==
    pa' = [pa EXCEPT !.pos = pos, !.calls = pa.calls + 1, !.call = call,
                     !.st = "ready", !.start = pa.pos, !.ok = ok, !.value = value]

PaUnchanged ==
    /\ UNCHANGED <<decoderVars, lexerVars, codecVars, poolVars>>
    /\ UNCHANGED <<cacheVars, bufferVars, encoderVars, unmarshalVars, structVars>>
    /\ UNCHANGED <<tokenVars, objectVars>>

PaSkipWhitespace ==
    /\ PaReady
    /\ PaReturn("skipWhitespace", skipWhitespace(pa.data, pa.pos), TRUE, <<>>)
    /\ PaUnchanged

PaParseString ==
    /\ PaReady
    /\ LET r == parseString(pa.data, pa.pos) IN
       PaReturn("parseString", r.pos, r.tok = "TokenString", r.value)
    /\ PaUnchanged

PaParseNumber ==
    /\ PaReady
    /\ LET r == parseNumber(pa.data, pa.pos) IN
       PaReturn("parseNumber", r.pos, r.tok = "TokenNumber", r.value)
    /\ PaUnchanged

PaMatchLiteral(literal) ==
    /\ PaReady
    /\ LET r == matchLiteral(pa.data, pa.pos, literal) IN
       PaReturn("matchLiteral", r.pos, r.ok, literal)
    /\ PaUnchanged

PaSkipValue ==
    /\ PaReady
    /\ LET r == skipValue(pa.data, pa.pos) IN
       PaReturn("skipValue", r.pos, r.ok, <<>>)
    /\ PaUnchanged

\* ExtractNumber: parseNumber, then strconv.ParseFloat of the token.
PaExtractNumber ==
    /\ PaReady
    /\ LET r == parseNumber(pa.data, pa.pos) IN
       PaReturn("ExtractNumber", r.pos, r.tok = "TokenNumber", r.value)
    /\ PaUnchanged

\* ExtractBool: skipWhitespace, then matchLiteral of true or of false by
\* the byte at the cursor.
PaExtractBool ==
    /\ PaReady
    /\ LET p1 == skipWhitespace(pa.data, pa.pos)
           word == IF p1 < Len(pa.data) /\ pa.data[p1 + 1] = "t" THEN jsonTrue
                   ELSE jsonFalse
           r == IF p1 < Len(pa.data) /\ pa.data[p1 + 1] \in {"t", "f"}
                THEN matchLiteral(pa.data, p1, word)
                ELSE [ok |-> FALSE, pos |-> p1]
       IN  PaReturn("ExtractBool", r.pos, r.ok, word)
    /\ PaUnchanged

\* unmarshalValue(p, v) with v an interface{}: a step of Unmarshal over the
\* Parser.
PaUnmarshalValue ==
    /\ PaReady
    /\ LET out == unmarshalValue(pa.data, pa.pos, NilInterfaceV) IN
       PaReturn("unmarshalValue", out.pos, out.err = "", <<>>)
    /\ PaUnchanged

\* ExtractString up to its loop: start := p.pos; p.data[p.pos] is read
\* without a look at len(p.data), which panics at the end of the data.
PaExtractStringEnter ==
    /\ PaReady
    /\ IF pa.pos >= Len(pa.data)
       THEN pa' = [pa EXCEPT !.call = "ExtractString", !.panicked = TRUE]
       ELSE IF pa.data[pa.pos + 1] # "\""
       THEN PaReturn("ExtractString", pa.pos, FALSE, <<>>)
       ELSE pa' = [pa EXCEPT !.call = "ExtractString", !.st = "scan",
                             !.start = pa.pos, !.pos = pa.pos + 1]
    /\ PaUnchanged

\* One iteration of ExtractString's loop, or what follows the loop: at a
\* backslash and at the end of the data p.pos = start.
PaExtractStringScan ==
    /\ pa.st = "scan"
    /\ IF pa.pos >= Len(pa.data)
       THEN pa' = [pa EXCEPT !.pos = pa.start, !.st = "ready",
                             !.calls = pa.calls + 1, !.ok = FALSE, !.value = <<>>]
       ELSE IF pa.data[pa.pos + 1] = "\\"
       THEN pa' = [pa EXCEPT !.pos = pa.start, !.st = "rewound"]
       ELSE IF pa.data[pa.pos + 1] = "\""
       THEN pa' = [pa EXCEPT !.pos = pa.pos + 1, !.st = "ready",
                             !.calls = pa.calls + 1, !.ok = TRUE,
                             !.value = Slice(pa.data, pa.start + 1, pa.pos)]
       ELSE pa' = [pa EXCEPT !.pos = pa.pos + 1]
    /\ PaUnchanged

\* ExtractString at a backslash, after p.pos = start: parseString.
PaExtractStringParse ==
    /\ pa.st = "rewound"
    /\ LET r == parseString(pa.data, pa.pos) IN
       pa' = [pa EXCEPT !.pos = r.pos, !.st = "ready", !.calls = pa.calls + 1,
                        !.ok = (r.tok = "TokenString"), !.value = r.value]
    /\ PaUnchanged

NextParser ==
    \/ PaSkipWhitespace
    \/ PaParseString
    \/ PaParseNumber
    \/ \E literal \in PaLiterals : PaMatchLiteral(literal)
    \/ PaSkipValue
    \/ PaExtractNumber
    \/ PaExtractBool
    \/ PaUnmarshalValue
    \/ PaExtractStringEnter
    \/ PaExtractStringScan
    \/ PaExtractStringParse

\* The bytes lo..hi of s are digits.
AllDigits(s, lo, hi) == \A k \in lo..hi : isDigit(s[k])

\* int = zero / ( digit1-9 *DIGIT ), at the bytes lo..hi of s.
IsInt(s, lo, hi) == lo <= hi /\ AllDigits(s, lo, hi) /\ (s[lo] = "0" => hi = lo)

\* [ frac ], frac = decimal-point 1*DIGIT
IsOptFrac(s, lo, hi) == hi < lo \/ (s[lo] = "." /\ lo < hi /\ AllDigits(s, lo + 1, hi))

\* [ exp ], exp = e [ minus / plus ] 1*DIGIT
IsOptExp(s, lo, hi) ==
    \/ hi < lo
    \/ /\ s[lo] \in {"e", "E"}
       /\ \/ lo < hi /\ AllDigits(s, lo + 1, hi)
          \/ lo + 1 < hi /\ s[lo + 1] \in {"+", "-"} /\ AllDigits(s, lo + 2, hi)

\* number = [ minus ] int [ frac ] [ exp ] of RFC 8259.
IsRFCNumber(s) ==
    LET lo == IF Len(s) > 0 /\ s[1] = "-" THEN 2 ELSE 1 IN
    \E b \in lo..Len(s) : \E c \in b..Len(s) :
        IsInt(s, lo, b) /\ IsOptFrac(s, b + 1, c) /\ IsOptExp(s, c + 1, Len(s))

\* parseNumber has been called at the start of the data and has returned.
ParseNumberReturned ==
    pa.call = "parseNumber" /\ pa.st = "ready" /\ pa.calls = 1

\* C27: a token parseNumber accepts is a number of the RFC 8259 grammar, and
\* a text that is such a number is accepted whole.
C27_NumberGrammar ==
    ParseNumberReturned =>
        /\ pa.ok => IsRFCNumber(pa.value)
        /\ IsRFCNumber(pa.data) => (pa.ok /\ pa.value = pa.data)

\* C28: no step of a primitive moves the cursor of the Parser back.
C28_CursorNeverMovesBack == [][pa'.pos >= pa.pos]_vars

\* C29: the cursor is never beyond the end of the data, and no primitive
\* reads a byte beyond it.
C29_CursorWithinData == pa.pos <= Len(pa.data) /\ ~pa.panicked

(***************************************************************************)
(* GetObject.  The map it builds is followed by its key set; a key is the  *)
(* bytes between the quotes, as GetString(keyBytes) gives them.            *)
(***************************************************************************)
\* Parser.ValueType: the cursor past the whitespace, and the token type of
\* the byte there.
ValueType(data, pos) ==
    LET p == skipWhitespace(data, pos)
        c == IF p < Len(data) THEN data[p + 1] ELSE NUL
    IN  [pos |-> p,
         tok |-> IF p >= Len(data) THEN "TokenError"
                 ELSE IF c = "{" THEN "TokenObjectStart"
                 ELSE IF c = "}" THEN "TokenObjectEnd"
                 ELSE IF c = "[" THEN "TokenArrayStart"
                 ELSE IF c = "]" THEN "TokenArrayEnd"
                 ELSE IF c = "\"" THEN "TokenString"
                 ELSE IF c = "t" \/ c = "f" THEN "TokenBool"
                 ELSE IF c = "n" THEN "TokenNull"
                 ELSE IF c = "-" \/ isDigit(c) THEN "TokenNumber"
                 ELSE IF c = ":" THEN "TokenColon"
                 ELSE IF c = "," THEN "TokenComma"
                 ELSE "TokenError"]

\* What an Extract... method or a nested call leaves: whether it gave a
\* value, and the cursor.
Got(ok, pos) == [ok |-> ok, pos |-> pos]

RECURSIVE ExtractStringScan(_, _, _)
\* The loop of ExtractString and what follows it, the cursor at pos and the
\* opening quote at start.
ExtractStringScan(data, start, pos) ==
    IF pos >= Len(data) THEN Got(FALSE, start)
    ELSE IF data[pos + 1] = "\\"
    THEN Got(parseString(data, start).tok = "TokenString", parseString(data, start).pos)
    ELSE IF data[pos + 1] = "\"" THEN Got(TRUE, pos + 1)
    ELSE ExtractStringScan(data, start, pos + 1)

\* ExtractString at a cursor within the data.
ExtractString(data, pos) ==
    IF data[pos + 1] # "\"" THEN Got(FALSE, pos)
    ELSE ExtractStringScan(data, pos, pos + 1)

\* ExtractNumber: strconv.ParseFloat takes every token parseNumber returns
\* that is as short as the ones here.
ExtractNumber(data, pos) ==
    Got(parseNumber(data, pos).tok = "TokenNumber", parseNumber(data, pos).pos)

\* ExtractBool at p1, past the whitespace.
ExtractBoolAt(data, p1) ==
    IF p1 >= Len(data) THEN Got(FALSE, p1)
    ELSE IF data[p1 + 1] = "t"
    THEN Got(matchLiteral(data, p1, jsonTrue).ok, matchLiteral(data, p1, jsonTrue).pos)
    ELSE IF data[p1 + 1] = "f"
    THEN Got(matchLiteral(data, p1, jsonFalse).ok, matchLiteral(data, p1, jsonFalse).pos)
    ELSE Got(FALSE, p1)

ExtractBool(data, pos) == ExtractBoolAt(data, skipWhitespace(data, pos))

\* The key of the path GetObject calls itself and GetArray with: "".
EmptyKey == <<>>

\* GetArray up to its element loop: Extract, then the test for an array.
\* With the path of the empty key over data that begins with a bracket
\* Extract finds nothing, so the loop is not reached from GetObject.
GetArrayFound(data, path) ==
    /\ Extract(data, path).found
    /\ ValueType(Extract(data, path).bytes, 0).tok = "TokenArrayStart"

RECURSIVE SkipNested(_, _, _, _, _)
\* The loop that skips a nested object or array by counting its openers and
\* closers.
SkipNested(data, pos, depth, opener, closer) ==
    IF depth > 0 /\ pos < Len(data)
    THEN SkipNested(data, pos + 1,
                    IF data[pos + 1] = opener THEN depth + 1
                    ELSE IF data[pos + 1] = closer THEN depth - 1 ELSE depth,
                    opener, closer)
    ELSE pos

\* What GetObject returns: found, and the key set of the map.
Object(found, keys) == [found |-> found, keys |-> keys]

NoObject == Object(FALSE, {})

RECURSIVE GetObject(_, _)
RECURSIVE GetObjectLoop(_, _, _)

\* After the value of a pair, p5 past the whitespace.
GetObjectAfterValue(data, p5, keys) ==
    IF p5 >= Len(data) THEN NoObject
    ELSE IF data[p5 + 1] = "}" THEN Object(TRUE, keys)
    ELSE IF data[p5 + 1] # "," THEN NoObject
    ELSE GetObjectLoop(data, p5 + 1, keys)

\* The value of the pair has been handled with outcome got: the key is set
\* when a value was got.
GetObjectSet(data, key, got, keys) ==
    GetObjectAfterValue(data, skipWhitespace(data, got.pos),
                        IF got.ok THEN keys \cup {key} ELSE keys)

\* A nested object or array at pos was got or not; if it was, it is skipped.
GetObjectNested(data, pos, ok, opener, closer) ==
    Got(ok, IF ok THEN SkipNested(data, pos + 1, 1, opener, closer) ELSE pos)

\* The switch on the type vt of the value.
GetObjectValue(data, vt) ==
    IF vt.tok = "TokenString" THEN ExtractString(data, vt.pos)
    ELSE IF vt.tok = "TokenNumber" THEN ExtractNumber(data, vt.pos)
    ELSE IF vt.tok = "TokenBool" THEN ExtractBool(data, vt.pos)
    ELSE IF vt.tok = "TokenNull" THEN Got(TRUE, matchLiteral(data, vt.pos, jsonNull).pos)
    ELSE IF vt.tok = "TokenObjectStart"
    THEN GetObjectNested(data, vt.pos,
                         GetObject(Slice(data, vt.pos, Len(data)), <<EmptyKey>>).found,
                         "{", "}")
    ELSE IF vt.tok = "TokenArrayStart"
    THEN GetObjectNested(data, vt.pos,
                         GetArrayFound(Slice(data, vt.pos, Len(data)), <<EmptyKey>>),
                         "[", "]")
    ELSE Got(FALSE, vt.pos)

\* The key has been parsed, p2 past the whitespace after it.
GetObjectColon(data, key, p2, keys) ==
    IF p2 >= Len(data) \/ data[p2 + 1] # ":" THEN NoObject
    ELSE GetObjectSet(data, key.value,
                      GetObjectValue(data, ValueType(data, skipWhitespace(data, p2 + 1))),
                      keys)

\* parseString has been called for the key, with outcome key.
GetObjectKey(data, key, keys) ==
    IF key.tok # "TokenString" THEN NoObject
    ELSE GetObjectColon(data, key, skipWhitespace(data, key.pos), keys)

\* At the start of a pair, p1 past the whitespace.
GetObjectPair(data, p1, keys) ==
    IF p1 >= Len(data) \/ data[p1 + 1] = "}" THEN Object(TRUE, keys)
    ELSE GetObjectKey(data, parseString(data, p1), keys)

GetObjectLoop(data, pos, keys) == GetObjectPair(data, skipWhitespace(data, pos), keys)

\* Extract has returned the value: it must begin with a brace.
GetObjectParse(value, vt) ==
    IF vt.tok # "TokenObjectStart" THEN NoObject
    ELSE GetObjectLoop(value, vt.pos + 1, {})

GetObject(data, path) ==
    IF ~Extract(data, path).found THEN NoObject
    ELSE GetObjectParse(Extract(data, path).bytes, ValueType(Extract(data, path).bytes, 0))

\* GetObject over a well-formed document and a path of keys.
ObjectTasks ==
    {[tree |-> t, data |-> sp \o Render(t, sp), path |-> path,
      stage |-> "call", out |-> NoObject] :
        t \in Trees(MaxDepth), sp \in Spacings, path \in Paths}

InitObject ==
    /\ gobj \in ObjectTasks
    /\ source = <<>> /\ reader = <<>> /\ d = <<>> /\ rv = <<>>
    /\ pc = "off" /\ results = <<>> /\ dests = <<>>
    /\ px = <<>> /\ rt = <<>>
    /\ bufs = <<>> /\ pools = <<>> /\ procs = <<>> /\ stats = <<>>
    /\ fieldCache = <<>> /\ callers = <<>> /\ computed = <<>>
    /\ bw = <<>> /\ enc = <<>> /\ um = <<>> /\ ms = <<>>
    /\ tk = <<>> /\ pa = <<>>

GetObjectCall ==
    /\ gobj.stage = "call"
    /\ gobj' = [gobj EXCEPT !.stage = "returned",
                            !.out = GetObject(gobj.data, gobj.path)]
    /\ UNCHANGED <<decoderVars, lexerVars, codecVars, poolVars>>
    /\ UNCHANGED <<cacheVars, bufferVars, encoderVars, unmarshalVars, structVars>>
    /\ UNCHANGED <<tokenVars, parserVars>>

NextObject == GetObjectCall

\* The keys of an object of the documents.
KeysOf(t) == {t.items[i].key : i \in 1..Len(t.items)}

\* The path of the call leads to an object of the document.
ObjectAtPath ==
    /\ Lookup(gobj.tree, gobj.path).present
    /\ Lookup(gobj.tree, gobj.path).val.k = "obj"

\* C30: GetObject at a path that leads to an object returns found = true and
\* a map whose keys are the object's keys, whatever the values are.
C30_GetObjectKeys ==
    (gobj.stage = "returned" /\ ObjectAtPath) =>
        /\ gobj.out.found
        /\ gobj.out.keys = KeysOf(Lookup(gobj.tree, gobj.path).val)

(***************************************************************************)
(* Specifications                                                          *)
(***************************************************************************)
\* The streaming Decoder over one source.
SpecDecoder == InitDecoder /\ [][NextDecoder]_vars

\* The same, with the goroutine that runs Decode never stopping in the middle
\* of a call and the caller going on to call Decode.
FairSpecDecoder == SpecDecoder /\ WF_vars(NextDecoder)

\* One run of a lexical primitive or of Extract over one input.
SpecLexer == InitLexer /\ [][NextLexer]_vars

\* Marshal of one value, then Unmarshal of the bytes it returned.
SpecCodec == InitCodec /\ [][NextCodec]_vars

\* Goroutines that call Marshal and AppendBuffers over the shared pools.
SpecPool == InitPool /\ [][NextPool]_vars

\* Goroutines that call getCachedFields for struct types.
SpecCache == InitCache /\ [][NextCache]_vars

\* One Buffer under its methods and the marshaller's direct writes.
SpecBuffer == InitBuffer /\ [][NextBuffer]_vars

\* Encode calls on one Encoder.
SpecEncoder == InitEncoder /\ [][NextEncoder]_vars

\* One Unmarshal call on one text and one destination.
SpecUnmarshal == InitUnmarshal /\ [][NextUnmarshal]_vars

\* Marshal of one struct value.
SpecStruct == InitStruct /\ [][NextStruct]_vars

\* The Decoders' token buffers and the token-buffer pool.
SpecToken == InitToken /\ [][NextToken]_vars

\* One Parser under a sequence of its primitives.
SpecParser == InitParser /\ [][NextParser]_vars

\* GetObject over one document and one path.
SpecObject == InitObject /\ [][NextObject]_vars

====
